---- MODULE Spec2Model ----
(***************************************************************************)
(* A model of the remote-desk media pipeline: the node graph primitives    *)
(* (ISource / ISink), the Pipeline assembler, and the screen capture        *)
(* engine that feeds it.                                                    *)
(***************************************************************************)
EXTENDS Integers, Sequences, FiniteSets, TLC

VARIABLES
    \* ---- Pipeline (core/pipeline.h) ----
    source_,        \* Pipeline::source_      (a source node or Null)
    sink_,          \* Pipeline::sink_        (a terminal sink or Null)
    processors_,    \* Pipeline::processors_  (sequence of processors)
    sinks_,         \* ISource::sinks_ of every upstream node (source, processors)
    callLog,        \* Start/Stop calls the last Pipeline operation made, in order
    retVal,         \* value returned by the last Pipeline operation (TRUE for void)
    lastOp,         \* name of the last Pipeline operation
    prevOp,         \* the operation before the last LinkAll, while LinkAll is the last operation
    prevSinks,      \* sinks_ as it was before the last LinkAll, while LinkAll is the last operation
    started,        \* components whose Start returned true and were not stopped since
    \* ---- threads calling one ISource (core/pipeline_interfaces.cpp) ----
    tpc,            \* where each thread is in the ISource method it is running
    targ,           \* the sink argument of AddSink / RemoveSink
    tframe,         \* the frame argument of DeliverFrame
    tidx,           \* DeliverFrame: position of the range-for over sinks_
    readers,        \* threads holding sinks_mutex_ shared
    writer,         \* the thread holding sinks_mutex_ exclusively, or NoThread
    delivered,      \* per thread: the OnFrame calls its current DeliverFrame has made
    snap,           \* per thread: sinks_ when its DeliverFrame took the lock
    addedBefore,    \* <<a, b>>: a and b are in the list and a's AddSink completed first
    removed,        \* sinks whose removal has returned and that were not re-added since
    lastWrite,      \* what the last AddSink / RemoveSink / ClearSinks body did to the list
    \* ---- ScreenCapturer and its capture engine (capturer/screen) ----
    initialized_,   \* ScreenCapturer::initialized_
    is_running_,    \* engine: is_running_
    should_stop_,   \* engine: should_stop_
    mutex_,         \* engine: the thread holding mutex_, or "free"
    frame_callback_,\* engine: a frame callback is installed
    display_,       \* engine: the display connection is open
    mpc,            \* where the controlling thread is
    wpc,            \* where the capture worker is ("none": no worker thread)
    wstack,         \* the worker's nested DeliverFrame calls: <<node, position>>
    stopReturned,   \* Pipeline::Stop has returned and Pipeline::Start was not called since
    stopInCallback, \* the last engine Stop raised should_stop_ while the callback was running
    \* ---- one captured frame on its way to a terminal sink ----
    route,          \* the pipeline the frame travels: source -> sink, or source -> scaler -> sink
    ximage,         \* the XImage XGetImage returned for the current frame
    capFrame,       \* the frame CaptureFrameXGetImage produced from it
    sinkFrame,      \* the last frame a terminal sink's OnFrame received
    fstage,         \* where the capture of the current frame is
    \* ---- one X11ScreenCaptureEngine called from several threads ----
    eng,            \* the engine's fields: is_running_, should_stop_, mutex_, capture_thread_, display_, frame_interval_
    cpc,            \* where each calling thread is
    carg,           \* the configuration the call in progress was given (its frame_rate)
    pre,            \* the fields and the workers as the thread holding mutex_ found them
    wrk,            \* every capture worker thread: unborn, begin, check, callback, sleep, exited, joined
    last,           \* the call that returned last: operation, thread, result and what it did
    fault,          \* the process was killed by a fault
    \* ---- one DiscoveryService: its controlling thread, its worker and the datagrams it receives ----
    dsvc,           \* the service's fields: running_, discovery_thread_, and whether server_ is receiving
    dpc,            \* where the thread calling Start and Stop is
    dwrk,           \* every discovery worker thread: unborn, server, client, loop, sleep, exited, joined
    dlast,          \* the Start or Stop that returned last and what it found and did
    stoppedSince,   \* Stop has returned and Start was not called since
    sentAfterStop,  \* a broadcast was sent while stoppedSince held
    dfault,         \* the process was ended by std::terminate
    listener,       \* listener_: unset, alive, or released by its owner
    dgram,          \* the datagram handed to OnReceive
    dstage,         \* arrived (OnReceive not run yet) or handled
    onfound,        \* what OnReceive did with it: OnFound call, caught exception, escaped exception
    \* ---- the ServiceManager registry ----
    services_,      \* services_: for every descriptor its ServiceInfo, or no entry
    delegators,     \* every ServiceDelegator: whether it exists, and its descriptor_
    slast,          \* the call that returned last: operation, descriptor, result, and the creator / Start / Stop calls it made
    sprev,          \* services_ as that call found it
    \* ---- pixel format converter chain ----
    cvconfig,       \* output_format of each converter of the chain, in order
    cvtrace,        \* the frame the source produced, then what each converter delivered
    cvfault,        \* none, or heap_overrun after a write past the output buffer
    \* ---- one producer thread delivering two frames down a chain ----
    ord,            \* the converters, the frames still to deliver, the DeliverFrame activations, what each sink received
    \* ---- a discovery service announcing itself to a peer ----
    wire,           \* the announcing service, the broadcasts it sent, what the peer parsed out of each
    \* ---- a VideoScaler handed frames one by one ----
    scl,            \* the scaler configuration, the frame of its last OnFrame, what it delivered, its statistics before and after
    \* ---- SetFrameCallback against a running capture worker ----
    cbk,            \* frame_callback_ of an engine, the SetFrameCallback in progress and where the worker is in CaptureFrame
    \* ---- the lazily created task queue of one service ----
    tq              \* task_queue_ of a ServiceBase, the queues created and destroyed, their tasks, and where each calling thread is

pipeVars == <<source_, sink_, processors_, sinks_, callLog, retVal, lastOp,
              prevOp, prevSinks, started>>

srcVars == <<tpc, targ, tframe, tidx, readers, writer, delivered, snap, addedBefore, removed,
             lastWrite>>

capVars == <<initialized_, is_running_, should_stop_, mutex_, frame_callback_, display_,
             mpc, wpc, wstack, stopReturned, stopInCallback>>

frameVars == <<route, ximage, capFrame, sinkFrame, fstage>>

engVars == <<eng, cpc, carg, pre, wrk, last, fault>>

discVars == <<dsvc, dpc, dwrk, dlast, stoppedSince, sentAfterStop, dfault, listener, dgram, dstage, onfound>>

svcVars == <<services_, delegators, slast, sprev>>

convVars == <<cvconfig, cvtrace, cvfault>>

ordVars == <<ord>>

wireVars == <<wire>>

sclVars == <<scl>>

cbkVars == <<cbk>>

tqVars == <<tq>>

vars == <<pipeVars, srcVars, capVars, frameVars, engVars, discVars, svcVars, convVars, ordVars, wireVars, sclVars, cbkVars, tqVars>>

\* What the operations of one subsystem leave alone.
OutsidePipeline == <<srcVars, capVars, frameVars, engVars, discVars, svcVars, convVars, ordVars, wireVars, sclVars, cbkVars, tqVars>>
OutsideSource   == <<source_, sink_, processors_, callLog, retVal, lastOp, prevOp,
                     prevSinks, started, capVars, frameVars, engVars, discVars, svcVars, convVars, ordVars, wireVars, sclVars, cbkVars, tqVars>>
OutsideCapture  == <<pipeVars, srcVars, frameVars, engVars, discVars, svcVars, convVars, ordVars, wireVars, sclVars, cbkVars, tqVars>>
OutsideFrame == <<pipeVars, srcVars, capVars, engVars, discVars, svcVars, convVars, ordVars, wireVars, sclVars, cbkVars, tqVars>>
OutsideEngine == <<pipeVars, srcVars, capVars, frameVars, discVars, svcVars, convVars, ordVars, wireVars, sclVars, cbkVars, tqVars>>
OutsideDiscovery == <<pipeVars, srcVars, capVars, frameVars, engVars, svcVars, convVars, ordVars, wireVars, sclVars, cbkVars, tqVars>>
OutsideServices == <<pipeVars, srcVars, capVars, frameVars, engVars, discVars, convVars, ordVars, wireVars, sclVars, cbkVars, tqVars>>
OutsideConvert == <<pipeVars, srcVars, capVars, frameVars, engVars, discVars, svcVars, ordVars, wireVars, sclVars, cbkVars, tqVars>>
OutsideOrder == <<pipeVars, srcVars, capVars, frameVars, engVars, discVars, svcVars, convVars, wireVars, sclVars, cbkVars, tqVars>>
OutsideWire == <<pipeVars, srcVars, capVars, frameVars, engVars, discVars, svcVars, convVars, ordVars, sclVars, cbkVars, tqVars>>
OutsideScaler == <<pipeVars, srcVars, capVars, frameVars, engVars, discVars, svcVars, convVars, ordVars, wireVars, cbkVars, tqVars>>
OutsideCallback == <<pipeVars, srcVars, capVars, frameVars, engVars, discVars, svcVars, convVars, ordVars, wireVars, sclVars, tqVars>>
OutsideQueue == <<pipeVars, srcVars, capVars, frameVars, engVars, discVars, svcVars, convVars, ordVars, wireVars, sclVars, cbkVars>>

Null == "null"

\* ---- bounds of the model ----
MaxProcs == 2
NumThreads == 2
MaxDim == 2
TargetDim == 2
NumCallers == 2
MaxSpawns == 2
MaxDiscoveryThreads == 2
MaxLen == 7
NumDelegators == 2

\* ---- the components the pipeline is built from ----
Sources == {"src"}
Procs   == {"p1", "p2"}
Sinks   == {"snk1", "snk2"}
Upstreams   == Sources \cup Procs       \* nodes that are an ISource
Downstreams == Procs \cup Sinks         \* nodes that are an ISink

Threads == 1..NumThreads
NoThread == 0

Range(s) == {s[i] : i \in 1..Len(s)}

Last(s) == s[Len(s)]

NoSinks == [u \in Upstreams |-> <<>>]

--------------------------------------------------------------------------
(* ISource: the sink list operations, as functions of the list.            *)

\* A variant of AddSink that appends without looking for the sink first.
AddSinkNoFind(list, sink) ==
    IF sink = Null THEN list ELSE Append(list, sink)

\* ISource::AddSink: null is ignored, a sink already in the list is not
\* added again, otherwise push_back.
AddSink(list, sink) ==
    IF sink = Null THEN list
    ELSE IF sink \in Range(list) THEN list
    ELSE Append(list, sink)

\* Position of the first occurrence of sink in list (std::find), 0 if none.
Find(list, sink) ==
    IF sink \in Range(list)
    THEN CHOOSE i \in 1..Len(list) :
            list[i] = sink /\ \A j \in 1..(i - 1) : list[j] # sink
    ELSE 0

\* An erase that fills the hole with the last element.
EraseSwapLast(list, i) ==
    [k \in 1..(Len(list) - 1) |-> IF k = i THEN list[Len(list)] ELSE list[k]]

\* vector::erase(it): the elements after it move one place down.
Erase(list, i) ==
    [k \in 1..(Len(list) - 1) |-> IF k < i THEN list[k] ELSE list[k + 1]]

\* ISource::RemoveSink
RemoveSink(list, sink) ==
    IF sink = Null THEN list
    ELSE IF Find(list, sink) = 0 THEN list
    ELSE Erase(list, Find(list, sink))

\* ISource::ClearSinks
ClearSinks(list) == <<>>

\* ISource::GetSinkCount
GetSinkCount(list) == Len(list)

--------------------------------------------------------------------------
(* Pipeline                                                                *)

\* upstream->AddSink(sink) on the graph
Link(S, up, sink) == [S EXCEPT ![up] = AddSink(@, sink)]

\* for (i = 0; i < processors_.size() - 1; ++i)
\*     processors_[i]->AddSink(processors_[i + 1]);
RECURSIVE LinkProcessors(_, _, _)
LinkProcessors(S, procs, i) ==
    IF i >= Len(procs) THEN S
    ELSE LinkProcessors(Link(S, procs[i], procs[i + 1]), procs, i + 1)

\* The edges Pipeline::LinkAll leaves, given the edges before it.
LinkAllEdges(S) ==
    IF processors_ = <<>>
    THEN Link(S, source_, sink_)
    ELSE Link(LinkProcessors(Link(S, source_, processors_[1]), processors_, 1),
              Last(processors_), sink_)

\* Bookkeeping every Pipeline operation does in the model; the operations are
\* called from one thread and leave the other subsystems alone.
Did(op, ret, log) ==
    /\ UNCHANGED OutsidePipeline
    /\ lastOp' = op
    /\ prevOp' = IF op = "LinkAll" THEN lastOp ELSE "none"
    /\ prevSinks' = IF op = "LinkAll" THEN sinks_ ELSE NoSinks
    /\ retVal' = ret
    /\ callLog' = log

\* Pipeline::SetSource
SetSource(s) ==
    /\ source_' = s
    /\ Did("SetSource", TRUE, <<>>)
    /\ UNCHANGED <<sink_, processors_, sinks_, started>>

\* Pipeline::SetSink
SetSink(s) ==
    /\ sink_' = s
    /\ Did("SetSink", TRUE, <<>>)
    /\ UNCHANGED <<source_, processors_, sinks_, started>>

\* Pipeline::AddProcessor
AddProcessor(p) ==
    /\ Len(processors_) < MaxProcs
    /\ processors_' = IF p # Null THEN Append(processors_, p) ELSE processors_
    /\ Did("AddProcessor", TRUE, <<>>)
    /\ UNCHANGED <<source_, sink_, sinks_, started>>

\* Pipeline::LinkAll
LinkAll ==
    /\ IF source_ = Null \/ sink_ = Null
       THEN /\ sinks_' = sinks_
            /\ Did("LinkAll", FALSE, <<>>)
       ELSE /\ sinks_' = LinkAllEdges(sinks_)
            /\ Did("LinkAll", TRUE, <<>>)
    /\ UNCHANGED <<source_, sink_, processors_, started>>

\* The edges Pipeline::UnlinkAll leaves.
UnlinkAllEdges(S) ==
    [u \in Upstreams |->
        IF u = source_ \/ u \in Range(processors_) THEN ClearSinks(S[u]) ELSE S[u]]

\* Pipeline::UnlinkAll
UnlinkAll ==
    /\ sinks_' = UnlinkAllEdges(sinks_)
    /\ Did("UnlinkAll", TRUE, <<>>)
    /\ UNCHANGED <<source_, sink_, processors_, started>>

\* Pipeline::Clear
Clear ==
    /\ sinks_' = UnlinkAllEdges(sinks_)
    /\ source_' = Null
    /\ sink_' = Null
    /\ processors_' = <<>>
    /\ Did("Clear", TRUE, <<>>)
    /\ UNCHANGED started

InitPipeline ==
    /\ source_ = Null
    /\ sink_ = Null
    /\ processors_ = <<>>
    /\ sinks_ = NoSinks
    /\ callLog = <<>>
    /\ retVal = TRUE
    /\ lastOp = "none"
    /\ prevOp = "none"
    /\ prevSinks = NoSinks
    /\ started = {}

\* No thread is inside an ISource method.
IdleSource ==
    /\ tpc = [t \in Threads |-> "idle"]
    /\ targ = [t \in Threads |-> Null]
    /\ tframe = [t \in Threads |-> 0]
    /\ tidx = [t \in Threads |-> 0]
    /\ readers = {}
    /\ writer = NoThread
    /\ delivered = [t \in Threads |-> <<>>]
    /\ snap = [t \in Threads |-> <<>>]
    /\ addedBefore = {}
    /\ removed = {}
    /\ lastWrite = "none"

\* A ScreenCapturer just constructed: engine created, nothing initialized.
IdleCapture ==
    /\ initialized_ = FALSE
    /\ is_running_ = FALSE
    /\ should_stop_ = FALSE
    /\ mutex_ = "free"
    /\ frame_callback_ = FALSE
    /\ display_ = FALSE
    /\ mpc = "idle"
    /\ wpc = "none"
    /\ wstack = <<>>
    /\ stopReturned = FALSE
    /\ stopInCallback = FALSE

\* ---- frames as the capture path sees them ----
\* FrameFormat codes (enum class FrameFormat)
UNKNOWN == 0
VIDEO_BASE == 100
RGBA32 == 105
BGRA32 == 106

\* An empty std::shared_ptr<Frame>.
NullPtr == [ptr |-> FALSE, data |-> FALSE, size |-> 0, format |-> UNKNOWN,
            width |-> 0, height |-> 0]

\* No XImage (XGetImage returned NULL, or nothing grabbed yet).
NoImage == [ok |-> FALSE, width |-> 0, height |-> 0, depth |-> 0,
            bits_per_pixel |-> 0, masks |-> "none"]

\* Nothing captured yet; the route is chosen when the pipeline is built.
IdleFrame ==
    /\ route = "direct"
    /\ ximage = NoImage
    /\ capFrame = NullPtr
    /\ sinkFrame = NullPtr
    /\ fstage = "idle"

\* ---- the capture engine and the threads calling it ----
Callers == 1..NumCallers
Workers == 1..MaxSpawns
NoCaller == 0
NoWorker == 0
NoArg == -1

\* X11ScreenCaptureEngine as its constructor leaves it (30 FPS by default).
NewEngine ==
    [is_running_ |-> FALSE, should_stop_ |-> FALSE, mutex_ |-> NoCaller,
     capture_thread_ |-> NoWorker, display_ |-> FALSE, frame_interval_ |-> 33]

NoWorkers == [w \in Workers |-> "unborn"]

NoPre == [eng |-> NewEngine, wrk |-> NoWorkers]

NoCall ==
    [op |-> "none", by |-> NoCaller, ret |-> "none", frame_rate |-> NoArg,
     wasRunning |-> FALSE, spawned |-> 0, fresh |-> FALSE, changed |-> FALSE,
     runningAfter |-> FALSE, aliveAfter |-> 0, displayAfter |-> FALSE]

\* An engine just constructed, no call made.
IdleEngine ==
    /\ eng = NewEngine
    /\ cpc = [c \in Callers |-> "idle"]
    /\ carg = [c \in Callers |-> NoArg]
    /\ pre = NoPre
    /\ wrk = NoWorkers
    /\ last = NoCall
    /\ fault = "none"

\* ---- the discovery service ----
DWorkers == 1..MaxDiscoveryThreads

\* DiscoveryService as its constructor leaves it.
NewDiscovery == [running_ |-> FALSE, discovery_thread_ |-> NoWorker, server_up |-> FALSE]

NoDWorkers == [w \in DWorkers |-> "unborn"]

NoDCall == [op |-> "none", wasRunning |-> FALSE, wasJoinable |-> FALSE, afterStop |-> FALSE,
            changed |-> FALSE, spawned |-> 0, fresh |-> FALSE, runningAfter |-> FALSE]

\* OnReceive has done nothing.
Nothing == [found |-> FALSE, caught |-> FALSE, escaped |-> FALSE,
            type |-> <<>>, id |-> <<>>, port |-> 0, version |-> <<>>,
            listenerWas |-> "unset"]

\* A DiscoveryService just constructed, no listener set, nothing received.
IdleDiscovery ==
    /\ dsvc = NewDiscovery
    /\ dpc = "idle"
    /\ dwrk = NoDWorkers
    /\ dlast = NoDCall
    /\ stoppedSince = FALSE
    /\ sentAfterStop = FALSE
    /\ dfault = FALSE
    /\ listener = "unset"
    /\ dgram = <<>>
    /\ dstage = "handled"
    /\ onfound = Nothing

\* ---- the service registry ----
Descriptors == {"a", "b"}
Delegators == 1..NumDelegators
NoDelegator == 0

\* No ServiceInfo under a descriptor.
NoEntry == [present |-> FALSE, delegator |-> NoDelegator, instance |-> FALSE,
            is_running |-> FALSE, creations |-> 0]

NoServices == [n \in Descriptors |-> NoEntry]

NoSCall == [op |-> "none", name |-> "", by |-> NoDelegator, ret |-> FALSE, calls |-> {}]

\* An empty registry, no delegator constructed.
IdleServices ==
    /\ services_ = NoServices
    /\ delegators = [d \in Delegators |-> [alive |-> FALSE, descriptor_ |-> ""]]
    /\ slast = NoSCall
    /\ sprev = NoServices

\* No converter chain built, nothing produced.
IdleConvert ==
    /\ cvconfig = <<>>
    /\ cvtrace = <<>>
    /\ cvfault = "none"

NoOrder == [cfg |-> <<>>, frames |-> <<>>, queue |-> <<>>, stack |-> <<>>, log |-> <<>>,
            returned |-> {}]

\* No chain built, nothing to deliver.
IdleOrder == ord = NoOrder

NoWire == [svc |-> [type |-> <<>>, id |-> <<>>, port |-> 0, version |-> <<>>],
           built |-> FALSE, sent |-> <<>>, parsed |-> <<>>]

\* No announcing service constructed.
IdleWire == wire = NoWire

NoStats == [frames_processed |-> 0, frames_dropped |-> 0]

\* A scaler that has not been handed a frame.
IdleScaler == scl = [maintain_aspect_ratio |-> TRUE, called |-> FALSE, input |-> NullPtr,
                     delivered |-> NullPtr, stats_ |-> NoStats, before |-> NoStats]

\* An engine whose frame callback was never set and whose worker is not
\* capturing.
IdleCallback == cbk = [frame_callback_ |-> "empty", mutex_ |-> FALSE, pending |-> "empty",
                       worker |-> "off", sets |-> 0, frames |-> 0, invoked |-> "none",
                       raced |-> FALSE, fault |-> "none"]

\* A service whose task queue has not been created and that no thread is
\* using.
IdleQueue == tq = [task_queue_ |-> 0, created |-> 0, destroyed |-> {}, tasks |-> <<>>,
                   at |-> <<>>, calls |-> 0]

InitLink == InitPipeline /\ IdleSource /\ IdleCapture /\ IdleFrame /\ IdleEngine /\ IdleDiscovery /\ IdleServices /\ IdleConvert /\ IdleOrder /\ IdleWire /\ IdleScaler /\ IdleCallback /\ IdleQueue

NextLink ==
    \/ \E s \in Sources \cup {Null} : SetSource(s)
    \/ \E s \in Sinks \cup {Null} : SetSink(s)
    \/ \E p \in Procs \cup {Null} : AddProcessor(p)
    \/ LinkAll
    \/ UnlinkAll
    \/ Clear

SpecLink == InitLink /\ [][NextLink]_vars

--------------------------------------------------------------------------
(* Pipeline lifecycle: Start and Stop                                      *)

Components == Sources \cup Procs \cup Sinks

Opt(n) == IF n = Null THEN <<>> ELSE <<n>>

\* A start order that starts the source before its consumers.
StartOrderSourceFirst == Opt(source_) \o processors_ \o Opt(sink_)

\* A start order that starts the sink before the processors.
StartOrderSinkFirst == Opt(sink_) \o processors_ \o Opt(source_)

\* The order in which Pipeline::Start reaches the components: the processors
\* in vector order, then the sink if set, then the source if set.
StartOrder == processors_ \o Opt(sink_) \o Opt(source_)

\* A stop order that tears the sink down first.
StopOrderSinkFirst == Opt(sink_) \o processors_ \o Opt(source_)

\* The order in which Pipeline::Stop reaches the components: the source if
\* set, then the processors in vector order, then the sink if set.
StopOrder == Opt(source_) \o processors_ \o Opt(sink_)

\* The Start calls made along order when exactly the components in ok start
\* successfully: each call is made after the one before it returned true, and
\* the first false return ends the walk.
RECURSIVE StartCalls(_, _, _)
StartCalls(order, ok, i) ==
    IF i > Len(order) THEN <<>>
    ELSE LET c == [op |-> "Start", node |-> order[i], ret |-> order[i] \in ok]
         IN  IF c.ret THEN <<c>> \o StartCalls(order, ok, i + 1) ELSE <<c>>

\* The Stop calls made along order (Stop returns nothing; ret is TRUE).
StopCalls(order) ==
    [i \in 1..Len(order) |-> [op |-> "Stop", node |-> order[i], ret |-> TRUE]]

\* Pipeline::Start; ok is the set of components whose Start would succeed.
Start(ok) ==
    LET log == StartCalls(StartOrder, ok, 1)
    IN  /\ Did("Start", source_ # Null /\ \A i \in 1..Len(log) : log[i].ret, log)
        /\ started' = started \cup {log[i].node : i \in {j \in 1..Len(log) : log[j].ret}}
        /\ UNCHANGED <<source_, sink_, processors_, sinks_>>

\* Pipeline::Stop
Stop ==
    LET log == StopCalls(StopOrder)
    IN  /\ Did("Stop", TRUE, log)
        /\ started' = started \ {log[i].node : i \in 1..Len(log)}
        /\ UNCHANGED <<source_, sink_, processors_, sinks_>>

NextLifecycle ==
    \/ \E s \in Sources \cup {Null} : SetSource(s)
    \/ \E s \in Sinks \cup {Null} : SetSink(s)
    \/ \E p \in Procs \cup {Null} : AddProcessor(p)
    \/ \E ok \in SUBSET Components : Start(ok)
    \/ Stop
    \/ Clear

SpecLifecycle == InitLink /\ [][NextLifecycle]_vars

--------------------------------------------------------------------------
(* One ISource used from several threads: sinks_ behind sinks_mutex_       *)

TheSource == "src"              \* the ISource the threads share
FanSinks  == Sinks \cup {"p1"}  \* the sinks they add and remove

\* Frames are named by reference: the null pointer, two valid frames, and a
\* frame whose IsValid() is false.
NullFrame == 0
Frames == 0..3
IsValid(f) == f \in {1, 2}

\* A writer that does not wait for the readers to leave.
CanLockUniqueIgnoringReaders == writer = NoThread

\* std::unique_lock<std::shared_mutex>: no writer and no reader holds the mutex.
CanLockUnique == writer = NoThread /\ readers = {}

\* std::shared_lock<std::shared_mutex>: no writer holds the mutex.
CanLockShared == writer = NoThread

\* A delivery that hands each sink a copy of the frame.
OnFrameArgCopy(frame) == frame + 10

\* sink->OnFrame(frame): the shared_ptr the sink receives.
OnFrameArg(frame) == frame

fanout == sinks_[TheSource]

SourceOnly == UNCHANGED OutsideSource

Goto(t, where) == tpc' = [tpc EXCEPT ![t] = where]

\* A thread calls AddSink(s): a null sink returns at once, otherwise the
\* thread goes on to take the unique lock.
CallAddSink(t, s) ==
    /\ tpc[t] = "idle"
    /\ IF s = Null
       THEN UNCHANGED <<tpc, targ>>
       ELSE /\ Goto(t, "add_lock")
            /\ targ' = [targ EXCEPT ![t] = s]
    /\ UNCHANGED <<tframe, tidx, readers, writer, delivered, snap, addedBefore, removed,
                   sinks_, lastWrite>>
    /\ SourceOnly

\* A thread calls RemoveSink(s).
CallRemoveSink(t, s) ==
    /\ tpc[t] = "idle"
    /\ IF s = Null
       THEN UNCHANGED <<tpc, targ>>
       ELSE /\ Goto(t, "rm_lock")
            /\ targ' = [targ EXCEPT ![t] = s]
    /\ UNCHANGED <<tframe, tidx, readers, writer, delivered, snap, addedBefore, removed, sinks_, lastWrite>>
    /\ SourceOnly

\* A thread calls ClearSinks().
CallClearSinks(t) ==
    /\ tpc[t] = "idle"
    /\ Goto(t, "clr_lock")
    /\ UNCHANGED <<targ, tframe, tidx, readers, writer, delivered, snap, addedBefore, removed,
                   sinks_, lastWrite>>
    /\ SourceOnly

\* The unique_lock constructor of AddSink, RemoveSink and ClearSinks.
LockUnique(t) ==
    /\ tpc[t] \in {"add_lock", "rm_lock", "clr_lock"}
    /\ CanLockUnique
    /\ writer' = t
    /\ Goto(t, CASE tpc[t] = "add_lock" -> "add_cs"
                 [] tpc[t] = "rm_lock"  -> "rm_cs"
                 [] tpc[t] = "clr_lock" -> "clr_cs")
    /\ UNCHANGED <<targ, tframe, tidx, readers, delivered, snap, addedBefore, removed, sinks_, lastWrite>>
    /\ SourceOnly

\* The body of AddSink under the lock, and its return (the lock is released).
AddSinkBody(t) ==
    /\ tpc[t] = "add_cs"
    /\ sinks_' = [sinks_ EXCEPT ![TheSource] = AddSink(@, targ[t])]
    /\ addedBefore' = IF targ[t] \in Range(fanout) THEN addedBefore
                      ELSE addedBefore \cup {<<x, targ[t]>> : x \in Range(fanout)}
    /\ removed' = removed \ {targ[t]}
    /\ lastWrite' = IF targ[t] \in Range(fanout) THEN "rejected" ELSE "added"
    /\ writer' = NoThread
    /\ Goto(t, "idle")
    /\ targ' = [targ EXCEPT ![t] = Null]
    /\ UNCHANGED <<tframe, tidx, readers, delivered, snap>>
    /\ SourceOnly

\* The body of RemoveSink under the lock, and its return.
RemoveSinkBody(t) ==
    /\ tpc[t] = "rm_cs"
    /\ sinks_' = [sinks_ EXCEPT ![TheSource] = RemoveSink(@, targ[t])]
    /\ addedBefore' = {e \in addedBefore : e[1] # targ[t] /\ e[2] # targ[t]}
    /\ removed' = removed \cup {targ[t]}
    /\ lastWrite' = IF targ[t] \in Range(fanout) THEN "removed" ELSE "absent"
    /\ writer' = NoThread
    /\ Goto(t, "idle")
    /\ targ' = [targ EXCEPT ![t] = Null]
    /\ UNCHANGED <<tframe, tidx, readers, delivered, snap>>
    /\ SourceOnly

\* The body of ClearSinks under the lock, and its return.
ClearSinksBody(t) ==
    /\ tpc[t] = "clr_cs"
    /\ sinks_' = [sinks_ EXCEPT ![TheSource] = ClearSinks(@)]
    /\ addedBefore' = {}
    /\ removed' = removed \cup Range(fanout)
    /\ lastWrite' = "cleared"
    /\ writer' = NoThread
    /\ Goto(t, "idle")
    /\ UNCHANGED <<targ, tframe, tidx, readers, delivered, snap>>
    /\ SourceOnly

\* A producer thread hands a frame to the source: ScreenCapturer::OnFrameCaptured
\* drops a null frame, DeliverFrame drops a null or invalid one; otherwise the
\* thread goes on to take the shared lock.
CallDeliverFrame(t, f) ==
    /\ tpc[t] = "idle"
    /\ IF f = NullFrame \/ ~IsValid(f)
       THEN UNCHANGED <<tpc, tframe>>
       ELSE /\ Goto(t, "dl_lock")
            /\ tframe' = [tframe EXCEPT ![t] = f]
    /\ UNCHANGED <<targ, tidx, readers, writer, delivered, snap, addedBefore, removed, sinks_, lastWrite>>
    /\ SourceOnly

\* The shared_lock constructor of DeliverFrame; the range-for starts at begin().
LockShared(t) ==
    /\ tpc[t] = "dl_lock"
    /\ CanLockShared
    /\ readers' = readers \cup {t}
    /\ tidx' = [tidx EXCEPT ![t] = 1]
    /\ snap' = [snap EXCEPT ![t] = fanout]
    /\ delivered' = [delivered EXCEPT ![t] = <<>>]
    /\ Goto(t, "dl_loop")
    /\ UNCHANGED <<targ, tframe, writer, addedBefore, removed, sinks_, lastWrite>>
    /\ SourceOnly

\* One turn of the range-for: a non-null sink's OnFrame is invoked.
InvokeOnFrame(t) ==
    /\ tpc[t] = "dl_loop"
    /\ tidx[t] <= Len(fanout)
    /\ IF fanout[tidx[t]] # Null
       THEN /\ delivered' = [delivered EXCEPT ![t] =
                                Append(@, <<fanout[tidx[t]], OnFrameArg(tframe[t])>>)]
            /\ Goto(t, "dl_onframe")
            /\ UNCHANGED tidx
       ELSE /\ tidx' = [tidx EXCEPT ![t] = @ + 1]
            /\ UNCHANGED <<delivered, tpc>>
    /\ UNCHANGED <<targ, tframe, readers, writer, snap, addedBefore, removed, sinks_, lastWrite>>
    /\ SourceOnly

\* The sink's OnFrame returns; the loop moves to the next element.
ReturnFromOnFrame(t) ==
    /\ tpc[t] = "dl_onframe"
    /\ tidx' = [tidx EXCEPT ![t] = @ + 1]
    /\ Goto(t, "dl_loop")
    /\ UNCHANGED <<targ, tframe, readers, writer, delivered, snap, addedBefore, removed, sinks_, lastWrite>>
    /\ SourceOnly

\* The range-for reached end(): DeliverFrame returns and releases the lock.
DeliverFrameReturn(t) ==
    /\ tpc[t] = "dl_loop"
    /\ tidx[t] > Len(fanout)
    /\ readers' = readers \ {t}
    /\ Goto(t, "idle")
    /\ tframe' = [tframe EXCEPT ![t] = NullFrame]
    /\ tidx' = [tidx EXCEPT ![t] = 0]
    /\ delivered' = [delivered EXCEPT ![t] = <<>>]
    /\ snap' = [snap EXCEPT ![t] = <<>>]
    /\ UNCHANGED <<targ, writer, addedBefore, removed, sinks_, lastWrite>>
    /\ SourceOnly

NextSource ==
    \E t \in Threads :
        \/ \E s \in FanSinks \cup {Null} : CallAddSink(t, s)
        \/ \E s \in FanSinks \cup {Null} : CallRemoveSink(t, s)
        \/ CallClearSinks(t)
        \/ LockUnique(t)
        \/ AddSinkBody(t)
        \/ RemoveSinkBody(t)
        \/ ClearSinksBody(t)
        \/ \E f \in Frames : CallDeliverFrame(t, f)
        \/ LockShared(t)
        \/ InvokeOnFrame(t)
        \/ ReturnFromOnFrame(t)
        \/ DeliverFrameReturn(t)

SpecSource == InitLink /\ [][NextSource]_vars

--------------------------------------------------------------------------
(* A pipeline fed by a ScreenCapturer: the controlling thread calls         *)
(* Initialize, Pipeline::Start and Pipeline::Stop; the engine's capture      *)
(* worker emits frames through the frame callback.                           *)

CaptureOnly == UNCHANGED OutsideCapture

\* A join that does not wait for the worker (the thread is let go).
JoinedWithoutWaiting == TRUE

\* capture_thread_->join() returns once CaptureThreadProc has returned.
Joined == wpc = "w_exited"

\* The nodes whose OnFrame the worker is executing (the bottom entry of the
\* stack is the capturer's own DeliverFrame).
ExecutingOnFrame == {wstack[i][1] : i \in 2..Len(wstack)}

\* ScreenCapturer::Initialize: the engine's Initialize refuses while capture is
\* running and otherwise opens the display, which may fail; on success the
\* frame callback that forwards to OnFrameCaptured is installed.
Initialize(displayOk) ==
    /\ mpc = "idle"
    /\ mutex_ = "free"
    /\ IF is_running_
       THEN /\ initialized_' = FALSE
            /\ UNCHANGED <<display_, frame_callback_>>
       ELSE /\ display_' = displayOk
            /\ initialized_' = displayOk
            /\ frame_callback_' = (frame_callback_ \/ displayOk)
    /\ UNCHANGED <<is_running_, should_stop_, mutex_, mpc, wpc, wstack, stopReturned,
                   stopInCallback>>
    /\ CaptureOnly

\* Pipeline::Start up to the call of the engine's Start: the processors and
\* the sink are started (ok: those whose Start succeeds); the first failure
\* returns false. ScreenCapturer::Start returns false when not initialized.
PipelineStartCall(ok) ==
    /\ mpc = "idle"
    /\ stopReturned' = FALSE
    /\ LET log == StartCalls(StartOrder, ok \cup {source_}, 1)
       IN  IF (\E i \in 1..Len(log) : log[i].node = source_) /\ initialized_
           THEN mpc' = "start_lock"
           ELSE mpc' = "idle"
    /\ UNCHANGED <<initialized_, is_running_, should_stop_, mutex_, frame_callback_,
                   display_, wpc, wstack, stopInCallback>>
    /\ CaptureOnly

\* Engine Start: lock_guard; an engine already running returns Success.
EngineStartLock ==
    /\ mpc = "start_lock"
    /\ mutex_ = "free"
    /\ IF is_running_
       THEN mpc' = "idle" /\ UNCHANGED mutex_
       ELSE mpc' = "start_spawn" /\ mutex_' = "main"
    /\ UNCHANGED <<initialized_, is_running_, should_stop_, frame_callback_, display_,
                   wpc, wstack, stopReturned, stopInCallback>>
    /\ CaptureOnly

\* should_stop_ = false; capture_thread_ = make_unique<thread>(CaptureThreadProc)
EngineStartSpawn ==
    /\ mpc = "start_spawn"
    /\ should_stop_' = FALSE
    /\ wpc' = "w_begin"
    /\ mpc' = "start_flag"
    /\ UNCHANGED <<initialized_, is_running_, mutex_, frame_callback_, display_, wstack,
                   stopReturned, stopInCallback>>
    /\ CaptureOnly

\* is_running_ = true; the lock is released and Pipeline::Start returns.
EngineStartReturn ==
    /\ mpc = "start_flag"
    /\ is_running_' = TRUE
    /\ mutex_' = "free"
    /\ mpc' = "idle"
    /\ UNCHANGED <<initialized_, should_stop_, frame_callback_, display_, wpc, wstack,
                   stopReturned, stopInCallback>>
    /\ CaptureOnly

\* Pipeline::Stop calls source_->Stop(), which calls the engine's Stop.
PipelineStopCall ==
    /\ mpc = "idle"
    /\ mpc' = IF source_ # Null THEN "stop_lock" ELSE "stop_rest"
    /\ UNCHANGED <<initialized_, is_running_, should_stop_, mutex_, frame_callback_,
                   display_, wpc, wstack, stopReturned, stopInCallback>>
    /\ CaptureOnly

\* Engine Stop: lock_guard; an engine that is not running returns at once.
EngineStopLock ==
    /\ mpc = "stop_lock"
    /\ mutex_ = "free"
    /\ IF is_running_
       THEN mpc' = "stop_signal" /\ mutex_' = "main"
       ELSE mpc' = "stop_rest" /\ UNCHANGED mutex_
    /\ UNCHANGED <<initialized_, is_running_, should_stop_, frame_callback_, display_,
                   wpc, wstack, stopReturned, stopInCallback>>
    /\ CaptureOnly

\* should_stop_ = true
EngineStopSignal ==
    /\ mpc = "stop_signal"
    /\ should_stop_' = TRUE
    /\ stopInCallback' = (wstack # <<>>)
    /\ mpc' = "stop_join"
    /\ UNCHANGED <<initialized_, is_running_, mutex_, frame_callback_, display_, wpc,
                   wstack, stopReturned>>
    /\ CaptureOnly

\* capture_thread_->join(); capture_thread_.reset()
EngineStopJoin ==
    /\ mpc = "stop_join"
    /\ Joined
    /\ wpc' = IF wpc = "w_exited" THEN "none" ELSE wpc
    /\ mpc' = "stop_clear"
    /\ UNCHANGED <<initialized_, is_running_, should_stop_, mutex_, frame_callback_,
                   display_, wstack, stopReturned, stopInCallback>>
    /\ CaptureOnly

\* is_running_ = false; the lock is released and the engine's Stop returns.
EngineStopReturn ==
    /\ mpc = "stop_clear"
    /\ is_running_' = FALSE
    /\ mutex_' = "free"
    /\ mpc' = "stop_rest"
    /\ UNCHANGED <<initialized_, should_stop_, frame_callback_, display_, wpc, wstack,
                   stopReturned, stopInCallback>>
    /\ CaptureOnly

\* The rest of Pipeline::Stop: every processor's Stop, the sink's Stop, return.
PipelineStopReturn ==
    /\ mpc = "stop_rest"
    /\ stopReturned' = TRUE
    /\ mpc' = "idle"
    /\ UNCHANGED <<initialized_, is_running_, should_stop_, mutex_, frame_callback_,
                   display_, wpc, wstack, stopInCallback>>
    /\ CaptureOnly

WorkerGoto(where) ==
    /\ wpc' = where
    /\ UNCHANGED <<initialized_, is_running_, should_stop_, mutex_, frame_callback_,
                   display_, mpc, wstack, stopReturned, stopInCallback>>
    /\ CaptureOnly

\* CaptureThreadProc begins: last_frame_time_ = now
WorkerBegin == wpc = "w_begin" /\ WorkerGoto("w_check")

\* while (!should_stop_)
WorkerCheck ==
    /\ wpc = "w_check"
    /\ WorkerGoto(IF should_stop_ THEN "w_exited" ELSE "w_time")

\* if (elapsed >= frame_interval_) CaptureFrame(); the clock decides.
WorkerTime(due) ==
    /\ wpc = "w_time"
    /\ WorkerGoto(IF due THEN "w_capture" ELSE "w_sleep")

\* CaptureFrame: nothing without a callback or a display; a failed grab gives
\* no frame; otherwise frame_callback_(frame) runs OnFrameCaptured, which
\* enters DeliverFrame of the capturer.
WorkerCapture(grabbed) ==
    /\ wpc = "w_capture"
    /\ IF frame_callback_ /\ display_ /\ grabbed
       THEN /\ wpc' = "w_deliver"
            /\ wstack' = <<<<source_, 1>>>>
       ELSE /\ wpc' = "w_sleep"
            /\ UNCHANGED wstack
    /\ UNCHANGED <<initialized_, is_running_, should_stop_, mutex_, frame_callback_,
                   display_, mpc, stopReturned, stopInCallback>>
    /\ CaptureOnly

Top == wstack[Len(wstack)]

Pop == SubSeq(wstack, 1, Len(wstack) - 1)

\* One turn of the range-for of DeliverFrame on the node at the top of the
\* stack: the next sink's OnFrame is invoked. A processor's OnFrame either
\* forwards (its own DeliverFrame walks its sinks) or drops the frame; a
\* terminal sink's OnFrame consumes it.
WorkerInvokeOnFrame(forward) ==
    /\ wpc = "w_deliver"
    /\ wstack # <<>>
    /\ Top[1] \in Upstreams
    /\ Top[2] <= Len(sinks_[Top[1]])
    /\ LET s == sinks_[Top[1]][Top[2]]
       IN  wstack' = Append(wstack,
                <<s, IF s \notin Upstreams THEN 0
                     ELSE IF forward THEN 1 ELSE Len(sinks_[s]) + 1>>)
    /\ UNCHANGED <<initialized_, is_running_, should_stop_, mutex_, frame_callback_,
                   display_, mpc, wpc, stopReturned, stopInCallback>>
    /\ CaptureOnly

\* The OnFrame (or, at the bottom, the frame callback) at the top of the stack
\* returns; the caller's loop moves on. When the callback has returned the
\* worker goes to sleep.
WorkerReturn ==
    /\ wpc = "w_deliver"
    /\ wstack # <<>>
    /\ Top[1] \in Upstreams => Top[2] > Len(sinks_[Top[1]])
    /\ IF Len(wstack) = 1
       THEN wstack' = <<>> /\ wpc' = "w_sleep"
       ELSE /\ wstack' = [Pop EXCEPT ![Len(wstack) - 1] = <<@[1], @[2] + 1>>]
            /\ UNCHANGED wpc
    /\ UNCHANGED <<initialized_, is_running_, should_stop_, mutex_, frame_callback_,
                   display_, mpc, stopReturned, stopInCallback>>
    /\ CaptureOnly

\* std::this_thread::sleep_for(1 ms)
WorkerSleep == wpc = "w_sleep" /\ WorkerGoto("w_check")

\* The pipelines the capturer feeds: source -> sink, source -> p1 -> sink and
\* source -> p1 -> p2 -> sink, assembled and linked.
InitQuiesce ==
    /\ source_ = "src"
    /\ sink_ = "snk1"
    /\ processors_ \in {<<>>, <<"p1">>, <<"p1", "p2">>}
    /\ sinks_ = LinkAllEdges(NoSinks)
    /\ callLog = <<>>
    /\ retVal = TRUE
    /\ lastOp = "LinkAll"
    /\ prevOp = "none"
    /\ prevSinks = NoSinks
    /\ started = {}
    /\ IdleSource
    /\ IdleCapture
    /\ IdleFrame
    /\ IdleEngine
    /\ IdleDiscovery
    /\ IdleServices
    /\ IdleConvert
    /\ IdleOrder
    /\ IdleWire
    /\ IdleScaler
    /\ IdleCallback
    /\ IdleQueue

NextQuiesce ==
    \/ \E displayOk \in BOOLEAN : Initialize(displayOk)
    \/ \E ok \in SUBSET (Procs \cup Sinks) : PipelineStartCall(ok)
    \/ EngineStartLock
    \/ EngineStartSpawn
    \/ EngineStartReturn
    \/ PipelineStopCall
    \/ EngineStopLock
    \/ EngineStopSignal
    \/ EngineStopJoin
    \/ EngineStopReturn
    \/ PipelineStopReturn
    \/ WorkerBegin
    \/ WorkerCheck
    \/ \E due \in BOOLEAN : WorkerTime(due)
    \/ \E grabbed \in BOOLEAN : WorkerCapture(grabbed)
    \/ \E forward \in BOOLEAN : WorkerInvokeOnFrame(forward)
    \/ WorkerReturn
    \/ WorkerSleep

SpecQuiesce == InitQuiesce /\ [][NextQuiesce]_vars

--------------------------------------------------------------------------
(* One frame from XGetImage to the terminal sink: X11ScreenCaptureEngine   *)
(* converts the XImage, ScreenCapturer delivers it, an optional            *)
(* VideoScaler stands between the capturer and the sink.                   *)

FrameOnly == UNCHANGED OutsideFrame

\* The XImages the X server can hand out: 24-bit and 30-bit visuals in
\* 32-bit pixels, with the two recognised mask layouts and an unrecognised one.
XImages ==
    [ok : {TRUE}, width : 1..MaxDim, height : 1..MaxDim, depth : {24, 30},
     bits_per_pixel : {32}, masks : {"bgr", "rgb", "other"}]

\* Frame::IsValid
FrameIsValid(f) == f.data /\ f.size > 0

\* GetFrameType
GetFrameType(format) == (format \div 100) * 100

\* Frame::IsVideo
IsVideo(f) == GetFrameType(f.format) = VIDEO_BASE

\* X11ScreenCaptureEngine::ConvertXImageToFrame
ConvertXImageToFrame(x) ==
    IF ~x.ok THEN NullPtr
    ELSE LET detected_format ==
                 IF x.depth = 24 /\ x.bits_per_pixel = 32
                 THEN IF x.masks = "bgr" THEN BGRA32
                      ELSE IF x.masks = "rgb" THEN RGBA32
                      ELSE UNKNOWN
                 ELSE UNKNOWN
             frame_size == x.width * x.height * 4
         IN  [ptr |-> TRUE, data |-> frame_size > 0, size |-> frame_size,
              format |-> detected_format, width |-> x.width, height |-> x.height]

RoundUpEvenNot(x) == x

\* (x + 1) & ~1
RoundUpEven(x) == ((x + 1) \div 2) * 2

\* VideoScaler::CalculateTargetDimensions with target TargetDim x TargetDim
CalculateTargetDimensions(maintain_aspect_ratio, input_width, input_height) ==
    IF ~maintain_aspect_ratio THEN <<TargetDim, TargetDim>>
    ELSE IF input_width * TargetDim > TargetDim * input_height
         THEN <<RoundUpEven(TargetDim),
                RoundUpEven((TargetDim * input_height) \div input_width)>>
         ELSE <<RoundUpEven((TargetDim * input_width) \div input_height),
                RoundUpEven(TargetDim)>>

\* VideoScaler::IsScalingNeeded
IsScalingNeeded(maintain_aspect_ratio, input_width, input_height) ==
    CalculateTargetDimensions(maintain_aspect_ratio, input_width, input_height)
        # <<input_width, input_height>>

\* VideoScaler::ScaleFrame
ScaleFrame(maintain_aspect_ratio, f) ==
    IF ~f.ptr \/ ~FrameIsValid(f) THEN NullPtr
    ELSE LET target == CalculateTargetDimensions(maintain_aspect_ratio, f.width, f.height)
             output_size == target[1] * target[2] * 4
         IN  IF f.format \in {BGRA32, RGBA32}
             THEN [ptr |-> TRUE, data |-> output_size > 0, size |-> output_size,
                   format |-> f.format, width |-> target[1], height |-> target[2]]
             ELSE NullPtr

\* VideoScaler::OnFrame: the frame the scaler hands to its DeliverFrame, or
\* NullPtr when it drops the input.
VideoScalerOnFrame(maintain_aspect_ratio, f) ==
    IF ~f.ptr \/ ~FrameIsValid(f) \/ ~IsVideo(f) THEN NullPtr
    ELSE IF ~IsScalingNeeded(maintain_aspect_ratio, f.width, f.height) THEN f
    ELSE ScaleFrame(maintain_aspect_ratio, f)

\* ISource::DeliverFrame forwards exactly the frames passing this test.
DeliverFrameForwards(f) == f.ptr /\ FrameIsValid(f)

\* What the terminal sink has received after ISource::DeliverFrame(f) on the
\* node feeding it.
SinkAfterDeliverFrame(f, before) == IF DeliverFrameForwards(f) THEN f ELSE before

\* XGetImage in CaptureFrameXGetImage: an image, or NULL.
XGetImage(x) ==
    /\ fstage = "idle"
    /\ ximage' = x
    /\ fstage' = "grabbed"
    /\ UNCHANGED <<route, capFrame, sinkFrame>>
    /\ FrameOnly

\* CaptureFrameXGetImage, after XGetImage: nullptr without an image, else
\* the converted frame.
CaptureFrameXGetImage ==
    /\ fstage = "grabbed"
    /\ capFrame' = ConvertXImageToFrame(ximage)
    /\ fstage' = "converted"
    /\ UNCHANGED <<route, ximage, sinkFrame>>
    /\ FrameOnly

\* CaptureFrame, after CaptureFrameXGetImage: no frame is ErrorUnknown;
\* otherwise frame_callback_(frame) runs ScreenCapturer::OnFrameCaptured,
\* which calls DeliverFrame, synchronously down to the terminal sink.
CaptureFrame ==
    /\ fstage = "converted"
    /\ sinkFrame' =
          IF ~capFrame.ptr THEN sinkFrame
          ELSE IF route = "direct" THEN SinkAfterDeliverFrame(capFrame, sinkFrame)
          ELSE IF ~DeliverFrameForwards(capFrame) THEN sinkFrame
          ELSE SinkAfterDeliverFrame(
                   VideoScalerOnFrame(route = "scaler_aspect", capFrame), sinkFrame)
    /\ fstage' = "idle"
    /\ UNCHANGED <<route, ximage, capFrame>>
    /\ FrameOnly

\* A linked pipeline src -> snk1, or src -> p1 -> snk1 where p1 is a
\* VideoScaler with maintain_aspect_ratio off or on.
InitFrame ==
    /\ source_ = "src"
    /\ sink_ = "snk1"
    /\ processors_ \in {<<>>, <<"p1">>}
    /\ sinks_ = LinkAllEdges(NoSinks)
    /\ callLog = <<>>
    /\ retVal = TRUE
    /\ lastOp = "LinkAll"
    /\ prevOp = "none"
    /\ prevSinks = NoSinks
    /\ started = {}
    /\ IdleSource
    /\ IdleCapture
    /\ route \in (IF processors_ = <<>> THEN {"direct"} ELSE {"scaler", "scaler_aspect"})
    /\ ximage = NoImage
    /\ capFrame = NullPtr
    /\ sinkFrame = NullPtr
    /\ fstage = "idle"
    /\ IdleEngine
    /\ IdleDiscovery
    /\ IdleServices
    /\ IdleConvert
    /\ IdleOrder
    /\ IdleWire
    /\ IdleScaler
    /\ IdleCallback
    /\ IdleQueue

NextFrame ==
    \/ \E x \in XImages \cup {NoImage} : XGetImage(x)
    \/ CaptureFrameXGetImage
    \/ CaptureFrame

SpecFrame == InitFrame /\ [][NextFrame]_vars

--------------------------------------------------------------------------
(* X11ScreenCaptureEngine called from several threads: Initialize, Start,  *)
(* Stop, IsRunning and UpdateConfig all take mutex_ (a std::mutex); the    *)
(* capture worker reads only the atomic should_stop_.                      *)

EngineOnly == UNCHANGED OutsideEngine

\* The frame rates a caller may configure.
FrameRates == {0, 30}

Alive(s) == s \in {"begin", "check", "callback", "cb_lock", "sleep"}

AliveCount(wk) == Cardinality({w \in Workers : Alive(wk[w])})

\* The fields guarded by mutex_.
Fields(e) == [e EXCEPT !.mutex_ = NoCaller]

\* std::make_unique<std::thread>: the next thread never used before.
NewWorker(wk) == CHOOSE w \in Workers : wk[w] = "unborn" /\ \A v \in Workers : wk[v] = "unborn" => w <= v

AlreadyRunningNever(e) == FALSE

\* Start: if (is_running_) return Success
AlreadyRunning(e) == e.is_running_

\* Stop: if (!is_running_) return
AlreadyStopped(e) == ~e.is_running_

LoopContinuesAlways(e) == TRUE

\* CaptureThreadProc: while (!should_stop_)
LoopContinues(e) == ~e.should_stop_

\* A call by thread c begins (it has not locked mutex_ yet).
Call(c, lockpc, fr) ==
    /\ fault = "none"
    /\ cpc[c] = "idle"
    /\ cpc' = [cpc EXCEPT ![c] = lockpc]
    /\ carg' = [carg EXCEPT ![c] = fr]
    /\ UNCHANGED <<eng, pre, wrk, last, fault>>
    /\ EngineOnly

\* std::lock_guard<std::mutex> lock(mutex_) can be taken by thread c at pc.
CanLock(c, pc) == fault = "none" /\ cpc[c] = pc /\ eng.mutex_ = NoCaller

\* Thread c holds mutex_ and is at pc.
Holding(c, pc) == fault = "none" /\ cpc[c] = pc /\ eng.mutex_ = c

\* The lock is taken and the call goes on to pc with the fields e2.
Proceed(c, pc, e2) ==
    /\ eng' = [e2 EXCEPT !.mutex_ = c]
    /\ pre' = [eng |-> eng, wrk |-> wrk]
    /\ cpc' = [cpc EXCEPT ![c] = pc]
    /\ UNCHANGED <<carg, wrk, last, fault>>

\* The call of thread c returns ret and releases mutex_, leaving the fields
\* e2 and the workers w2; p is what the call found when it took the lock.
Returns(c, op, ret, e2, w2, p) ==
    /\ cpc' = [cpc EXCEPT ![c] = "idle"]
    /\ carg' = [carg EXCEPT ![c] = NoArg]
    /\ eng' = [e2 EXCEPT !.mutex_ = NoCaller]
    /\ wrk' = w2
    /\ pre' = NoPre
    /\ last' = [op |-> op, by |-> c, ret |-> ret, frame_rate |-> carg[c],
                wasRunning |-> p.eng.is_running_,
                spawned |-> Cardinality({w \in Workers :
                                p.wrk[w] = "unborn" /\ w2[w] # "unborn"}),
                fresh |-> /\ e2.capture_thread_ # NoWorker
                          /\ p.wrk[e2.capture_thread_] = "unborn",
                changed |-> Fields(e2) # Fields(p.eng),
                runningAfter |-> e2.is_running_,
                aliveAfter |-> AliveCount(w2),
                displayAfter |-> e2.display_]
    /\ UNCHANGED fault

Here == [eng |-> eng, wrk |-> wrk]

\* X11ScreenCaptureEngine::Start, up to the creation of the thread
EngineStartEnter(c) ==
    /\ CanLock(c, "st_lock")
    /\ IF AlreadyRunning(eng)
       THEN Returns(c, "Start", "Success", eng, wrk, Here)
       ELSE /\ \E w \in Workers : wrk[w] = "unborn"
            /\ Proceed(c, "st_spawn", [eng EXCEPT !.should_stop_ = FALSE])
    /\ EngineOnly

\* capture_thread_ = std::make_unique<std::thread>(CaptureThreadProc)
EngineStartThread(c) ==
    /\ Holding(c, "st_spawn")
    /\ LET w == NewWorker(wrk) IN
          /\ wrk' = [wrk EXCEPT ![w] = "begin"]
          /\ eng' = [eng EXCEPT !.capture_thread_ = w]
    /\ cpc' = [cpc EXCEPT ![c] = "st_flag"]
    /\ UNCHANGED <<carg, pre, last, fault>>
    /\ EngineOnly

\* is_running_ = true; return Success
EngineStartDone(c) ==
    /\ Holding(c, "st_flag")
    /\ Returns(c, "Start", "Success", [eng EXCEPT !.is_running_ = TRUE], wrk, pre)
    /\ EngineOnly

\* X11ScreenCaptureEngine::Stop, up to the join
EngineStopEnter(c) ==
    /\ CanLock(c, "sp_lock")
    /\ IF AlreadyStopped(eng)
       THEN Returns(c, "Stop", "void", eng, wrk, Here)
       ELSE Proceed(c, "sp_join", [eng EXCEPT !.should_stop_ = TRUE])
    /\ EngineOnly

\* if (capture_thread_ && capture_thread_->joinable()) capture_thread_->join()
EngineStopJoinThread(c) ==
    /\ Holding(c, "sp_join")
    /\ IF eng.capture_thread_ # NoWorker
       THEN /\ wrk[eng.capture_thread_] = "exited"
            /\ wrk' = [wrk EXCEPT ![eng.capture_thread_] = "joined"]
       ELSE UNCHANGED wrk
    /\ cpc' = [cpc EXCEPT ![c] = "sp_clear"]
    /\ UNCHANGED <<eng, carg, pre, last, fault>>
    /\ EngineOnly

\* capture_thread_.reset(); is_running_ = false; return
EngineStopDone(c) ==
    /\ Holding(c, "sp_clear")
    /\ Returns(c, "Stop", "void",
               [eng EXCEPT !.capture_thread_ = NoWorker, !.is_running_ = FALSE], wrk, pre)
    /\ EngineOnly

\* X11ScreenCaptureEngine::IsRunning
EngineIsRunning(c) ==
    /\ CanLock(c, "ir_lock")
    /\ Returns(c, "IsRunning", IF eng.is_running_ THEN "true" ELSE "false", eng, wrk, Here)
    /\ EngineOnly

\* InitializeX11: display_ = XOpenDisplay(nullptr), ErrorNoDisplay without one
InitializeX11(e, displayOk) == [e EXCEPT !.display_ = displayOk]

\* X11ScreenCaptureEngine::Initialize. 1000 / config_.frame_rate with a
\* frame_rate of 0 is an integer division by zero: the process is killed
\* (SIGFPE), or the quotient is 0 and the call goes on (divide instructions
\* that do not trap).
EngineInitialize(c, displayOk, trap) ==
    /\ CanLock(c, "in_lock")
    /\ IF eng.is_running_
       THEN Returns(c, "Initialize", "ErrorInitialization", eng, wrk, Here)
       ELSE IF carg[c] = 0 /\ trap
       THEN /\ fault' = "SIGFPE"
            /\ UNCHANGED <<eng, cpc, carg, pre, wrk, last>>
       ELSE LET interval == IF carg[c] = 0 THEN 0 ELSE 1000 \div carg[c]
                e2 == InitializeX11([eng EXCEPT !.frame_interval_ = interval], displayOk)
            IN  Returns(c, "Initialize",
                        IF displayOk THEN "Success" ELSE "ErrorNoDisplay", e2, wrk, Here)
    /\ EngineOnly

\* X11ScreenCaptureEngine::UpdateConfig, up to its first nested call:
\* lock_guard lock(mutex_); was_running = is_running_; then Stop() if it
\* was running, else Initialize(config)
EngineUpdateConfigEnter(c) ==
    /\ CanLock(c, "uc_lock")
    /\ Proceed(c, IF eng.is_running_ THEN "uc_stop_lock" ELSE "uc_init_lock", eng)
    /\ EngineOnly

\* Stop() or Initialize() called from UpdateConfig locks mutex_, which the
\* calling thread owns: undefined for std::mutex. The thread blocks for
\* ever, or the library detects the deadlock and the process ends.
EngineUpdateConfigRelock(c, detected) ==
    /\ fault = "none"
    /\ cpc[c] \in {"uc_stop_lock", "uc_init_lock"}
    /\ eng.mutex_ = c
    /\ IF detected
       THEN fault' = "resource_deadlock" /\ UNCHANGED cpc
       ELSE cpc' = [cpc EXCEPT ![c] = "uc_blocked"] /\ UNCHANGED fault
    /\ UNCHANGED <<eng, carg, pre, wrk, last>>
    /\ EngineOnly

WorkerTo(w, s) ==
    /\ wrk' = [wrk EXCEPT ![w] = s]
    /\ UNCHANGED <<eng, cpc, carg, pre, last, fault>>
    /\ EngineOnly

\* CaptureThreadProc: last_frame_time_ = now
CaptureThreadBegin(w) == fault = "none" /\ wrk[w] = "begin" /\ WorkerTo(w, "check")

\* CaptureThreadProc: the loop test, then CaptureFrame when the frame
\* interval has elapsed (always, with an interval of 0)
CaptureThreadLoop(w, due) ==
    /\ fault = "none"
    /\ wrk[w] = "check"
    /\ due \/ eng.frame_interval_ > 0
    /\ WorkerTo(w, IF ~LoopContinues(eng) THEN "exited"
                   ELSE IF due THEN "callback" ELSE "sleep")

\* CaptureFrame returns (the frame callback has returned)
CaptureThreadFrameDone(w) == fault = "none" /\ wrk[w] = "callback" /\ WorkerTo(w, "sleep")

\* std::this_thread::sleep_for(1 ms)
CaptureThreadSleep(w) == fault = "none" /\ wrk[w] = "sleep" /\ WorkerTo(w, "check")

CallerStep(c) ==
    \/ EngineStartEnter(c)
    \/ EngineStartThread(c)
    \/ EngineStartDone(c)
    \/ EngineStopEnter(c)
    \/ EngineStopJoinThread(c)
    \/ EngineStopDone(c)
    \/ EngineIsRunning(c)

WorkerStep(w) ==
    \/ CaptureThreadBegin(w)
    \/ \E due \in BOOLEAN : CaptureThreadLoop(w, due)
    \/ CaptureThreadFrameDone(w)
    \/ CaptureThreadSleep(w)

\* Start, Stop and IsRunning from every thread, and the workers.
NextEngine ==
    \/ \E c \in Callers : \E pc \in {"st_lock", "sp_lock", "ir_lock"} : Call(c, pc, NoArg)
    \/ \E c \in Callers : CallerStep(c)
    \/ \E w \in Workers : WorkerStep(w)

SpecEngine == InitLink /\ [][NextEngine]_vars

\* Start, Stop and IsRunning with a scheduler that lets every worker and
\* every thread inside a call run, and hands mutex_ to a thread waiting in
\* Stop when it is released again and again.
FairEngine ==
    /\ \A w \in Workers : WF_vars(WorkerStep(w))
    /\ \A c \in Callers : WF_vars(CallerStep(c))
    /\ \A c \in Callers : SF_vars(EngineStopEnter(c))

SpecShutdown == InitLink /\ [][NextEngine]_vars /\ FairEngine

\* The same with Initialize and UpdateConfig.
NextEngineConfig ==
    \/ \E c \in Callers : \E pc \in {"st_lock", "sp_lock", "ir_lock"} : Call(c, pc, NoArg)
    \/ \E c \in Callers : \E pc \in {"in_lock", "uc_lock"} : \E fr \in FrameRates : Call(c, pc, fr)
    \/ \E c \in Callers : CallerStep(c)
    \/ \E c \in Callers : \E displayOk, trap \in BOOLEAN : EngineInitialize(c, displayOk, trap)
    \/ \E c \in Callers : EngineUpdateConfigEnter(c)
    \/ \E c \in Callers : \E detected \in BOOLEAN : EngineUpdateConfigRelock(c, detected)
    \/ \E w \in Workers : WorkerStep(w)

SpecEngineConfig == InitLink /\ [][NextEngineConfig]_vars

\* A sink's OnFrame, running in the worker inside frame_callback_(frame),
\* calls IsRunning() on the engine and reaches its lock_guard.
SinkCallsIsRunning(w) ==
    /\ fault = "none"
    /\ wrk[w] = "callback"
    /\ eng.display_
    /\ WorkerTo(w, "cb_lock")

\* IsRunning() in the worker: takes mutex_ once it is free, reads
\* is_running_, releases it and returns into the callback.
SinkIsRunningReturns(w) ==
    /\ fault = "none"
    /\ wrk[w] = "cb_lock"
    /\ eng.mutex_ = NoCaller
    /\ WorkerTo(w, "callback")

\* Start, Stop and IsRunning from every thread, and workers whose frame
\* callback may call IsRunning.
NextEngineCallback ==
    \/ \E c \in Callers : \E pc \in {"st_lock", "sp_lock", "ir_lock"} : Call(c, pc, NoArg)
    \/ \E c \in Callers : CallerStep(c)
    \/ \E w \in Workers : WorkerStep(w)
    \/ \E w \in Workers : SinkCallsIsRunning(w)
    \/ \E w \in Workers : SinkIsRunningReturns(w)

\* The engine after a successful Initialize (display_ open) and
\* SetFrameCallback, so that CaptureFrame does invoke the callback.
InitEngineCallback ==
    /\ InitPipeline
    /\ IdleSource
    /\ IdleCapture
    /\ IdleFrame
    /\ eng = InitializeX11(NewEngine, TRUE)
    /\ cpc = [c \in Callers |-> "idle"]
    /\ carg = [c \in Callers |-> NoArg]
    /\ pre = NoPre
    /\ wrk = NoWorkers
    /\ last = NoCall
    /\ fault = "none"
    /\ IdleDiscovery
    /\ IdleServices
    /\ IdleConvert
    /\ IdleOrder
    /\ IdleWire
    /\ IdleScaler
    /\ IdleCallback
    /\ IdleQueue

SpecEngineCallback == InitEngineCallback /\ [][NextEngineCallback]_vars

--------------------------------------------------------------------------
(* DiscoveryService: Start and Stop called by one thread, the worker       *)
(* running DiscoveryLoop.  running_ is atomic; nothing else is shared.     *)

DiscoveryOnly == UNCHANGED OutsideDiscovery

DiscoveryAlive(s) == s \in {"server", "client", "loop", "sleep"}

\* std::thread::joinable of *discovery_thread_
Joinable(d, wk) ==
    d.discovery_thread_ # NoWorker /\ wk[d.discovery_thread_] # "joined"

NewDWorker(wk) ==
    CHOOSE w \in DWorkers : wk[w] = "unborn" /\ \A v \in DWorkers : wk[v] = "unborn" => w <= v

ThreadFinishedWithoutWaiting(s) == TRUE

\* std::thread::join returns once the thread function has returned
ThreadFinished(s) == s = "exited"

\* The record of a Start or Stop that returns, leaving d2 and w2.
DReturn(op, d2, w2, d1, w1) ==
    [op |-> op, wasRunning |-> d1.running_, wasJoinable |-> Joinable(d1, w1),
     afterStop |-> stoppedSince,
     changed |-> d2 # d1 \/ w2 # w1,
     spawned |-> Cardinality({w \in DWorkers : w1[w] = "unborn" /\ w2[w] # "unborn"}),
     fresh |-> d2.discovery_thread_ # NoWorker /\ w1[d2.discovery_thread_] = "unborn",
     runningAfter |-> d2.running_]

\* DiscoveryService::Start. Assigning discovery_thread_ destroys the thread
\* object it held: std::terminate if that thread was never joined.
DiscoveryStart ==
    /\ ~dfault
    /\ dpc = "idle"
    /\ IF Joinable(dsvc, dwrk)
       THEN /\ dfault' = TRUE
            /\ dsvc' = [dsvc EXCEPT !.running_ = TRUE]
            /\ UNCHANGED <<dwrk, dlast, stoppedSince>>
       ELSE /\ \E w \in DWorkers : dwrk[w] = "unborn"
            /\ LET w == NewDWorker(dwrk)
                   d2 == [dsvc EXCEPT !.running_ = TRUE, !.discovery_thread_ = w]
                   w2 == [dwrk EXCEPT ![w] = "server"]
               IN  /\ dsvc' = d2
                   /\ dwrk' = w2
                   /\ dlast' = DReturn("Start", d2, w2, dsvc, dwrk)
            /\ stoppedSince' = FALSE
            /\ UNCHANGED dfault
    /\ UNCHANGED <<dpc, sentAfterStop, listener, dgram, dstage, onfound>>
    /\ DiscoveryOnly

\* DiscoveryService::Stop, up to the join: running_ = false, and return at
\* once when there is no joinable thread.
DiscoveryStop ==
    /\ ~dfault
    /\ dpc = "idle"
    /\ LET d2 == [dsvc EXCEPT !.running_ = FALSE] IN
          /\ dsvc' = d2
          /\ IF Joinable(dsvc, dwrk)
             THEN /\ dpc' = "stop_join"
                  /\ dlast' = DReturn("Stop:joining", dsvc, dwrk, dsvc, dwrk)
                  /\ UNCHANGED stoppedSince
             ELSE /\ dlast' = DReturn("Stop", d2, dwrk, dsvc, dwrk)
                  /\ stoppedSince' = TRUE
                  /\ UNCHANGED dpc
    /\ UNCHANGED <<dwrk, sentAfterStop, dfault, listener, dgram, dstage, onfound>>
    /\ DiscoveryOnly

\* discovery_thread_->join(), then Stop returns
DiscoveryStopJoin ==
    /\ ~dfault
    /\ dpc = "stop_join"
    /\ ThreadFinished(dwrk[dsvc.discovery_thread_])
    /\ dwrk' = [dwrk EXCEPT ![dsvc.discovery_thread_] =
                                IF @ = "exited" THEN "joined" ELSE @]
    /\ dlast' = [dlast EXCEPT !.op = "Stop", !.changed = TRUE, !.runningAfter = dsvc.running_]
    /\ dpc' = "idle"
    /\ stoppedSince' = TRUE
    /\ UNCHANGED <<dsvc, sentAfterStop, dfault, listener, dgram, dstage, onfound>>
    /\ DiscoveryOnly

DWorkerTo(w, s, up) ==
    /\ dwrk' = [dwrk EXCEPT ![w] = s]
    /\ dsvc' = [dsvc EXCEPT !.server_up = up]
    /\ UNCHANGED <<dpc, dlast, stoppedSince, dfault, listener, dgram, dstage, onfound>>
    /\ DiscoveryOnly

\* DiscoveryLoop: create the UdpServer, Init and Start it; return on failure
DiscoveryServerSetup(w, initOk, startOk) ==
    /\ ~dfault
    /\ dwrk[w] = "server"
    /\ IF initOk /\ startOk THEN DWorkerTo(w, "client", TRUE)
                             ELSE DWorkerTo(w, "exited", FALSE)
    /\ UNCHANGED sentAfterStop

\* DiscoveryLoop: create the UdpClient, Init it and enable broadcast; on
\* failure stop the server and return
DiscoveryClientSetup(w, initOk, broadcastOk) ==
    /\ ~dfault
    /\ dwrk[w] = "client"
    /\ IF initOk /\ broadcastOk THEN DWorkerTo(w, "loop", TRUE)
                                 ELSE DWorkerTo(w, "exited", FALSE)
    /\ UNCHANGED sentAfterStop

\* DiscoveryLoop: while (running_), broadcast when the interval has
\* elapsed; after the loop stop the server and close the client
DiscoveryLoopStep(w, due) ==
    /\ ~dfault
    /\ dwrk[w] = "loop"
    /\ IF dsvc.running_
       THEN /\ DWorkerTo(w, "sleep", TRUE)
            /\ sentAfterStop' = (sentAfterStop \/ (due /\ stoppedSince))
       ELSE /\ DWorkerTo(w, "exited", FALSE)
            /\ UNCHANGED sentAfterStop

\* std::this_thread::sleep_for(100 ms)
DiscoverySleep(w) ==
    /\ ~dfault
    /\ dwrk[w] = "sleep"
    /\ DWorkerTo(w, "loop", TRUE)
    /\ UNCHANGED sentAfterStop

\* The owner of the listener sets it, or drops its last shared_ptr to it.
SetListener(alive) ==
    /\ ~dfault
    /\ listener' = IF alive THEN "alive" ELSE "released"
    /\ listener' # listener
    /\ alive \/ listener = "alive"
    /\ UNCHANGED <<dsvc, dpc, dwrk, dlast, stoppedSince, sentAfterStop, dfault,
                   dgram, dstage, onfound>>
    /\ DiscoveryOnly

NextDiscovery ==
    \/ DiscoveryStart
    \/ DiscoveryStop
    \/ DiscoveryStopJoin
    \/ \E w \in DWorkers : \E initOk, startOk \in BOOLEAN : DiscoveryServerSetup(w, initOk, startOk)
    \/ \E w \in DWorkers : \E initOk, broadcastOk \in BOOLEAN : DiscoveryClientSetup(w, initOk, broadcastOk)
    \/ \E w \in DWorkers : \E due \in BOOLEAN : DiscoveryLoopStep(w, due)
    \/ \E w \in DWorkers : DiscoverySleep(w)
    \/ \E alive \in BOOLEAN : SetListener(alive)

SpecDiscovery == InitLink /\ [][NextDiscovery]_vars

--------------------------------------------------------------------------
(* InternalServerListener::OnReceive: one datagram, parsed as              *)
(* type|id|port|version and reported to the listener.  Strings are         *)
(* sequences of characters, indexed from 0 as in the code.                 *)

\* The characters of a datagram: the separator, a letter and a digit.
Chars == {"|", "t", "7"}

Datagrams == UNION {[1..n -> Chars] : n \in 0..MaxLen}

\* What the service was constructed with: type_, id_, port_, version_.
Self == [type |-> <<"t">>, id |-> <<"7">>, port |-> 7, version |-> <<>>]

\* std::string::npos; npos + 1 wraps to 0 in size_t arithmetic
Npos == -1

\* p + 1 in size_t
SizeTSucc(p) == IF p = Npos THEN 0 ELSE p + 1

\* std::string::find(ch, pos)
StringFind(s, ch, pos) ==
    LET hits == {i \in pos..(Len(s) - 1) : s[i + 1] = ch}
    IN  IF hits = {} THEN Npos ELSE CHOOSE i \in hits : \A j \in hits : i <= j

\* std::string::substr(pos, n) for pos <= size
Substr(s, pos, n) ==
    SubSeq(s, pos + 1, IF pos + n > Len(s) THEN Len(s) ELSE pos + n)

SubstrToNextBar(s, pos) ==
    LET stop == StringFind(s, "|", pos)
    IN  SubSeq(s, pos + 1, IF stop = Npos THEN Len(s) ELSE stop)

\* std::string::substr(pos)
SubstrToEnd(s, pos) == SubSeq(s, pos + 1, Len(s))

IsDigit(ch) == ch \in {"0", "1", "2", "3", "4", "5", "6", "7", "8", "9"}

DigitValue(ch) ==
    CASE ch = "0" -> 0 [] ch = "1" -> 1 [] ch = "2" -> 2 [] ch = "3" -> 3 [] ch = "4" -> 4
      [] ch = "5" -> 5 [] ch = "6" -> 6 [] ch = "7" -> 7 [] ch = "8" -> 8 [] ch = "9" -> 9

\* The number of leading digits of s.
DigitPrefix(s) ==
    Cardinality({k \in 1..Len(s) : \A j \in 1..k : IsDigit(s[j])})

RECURSIVE DecimalValue(_, _)
DecimalValue(s, k) ==
    IF k = 0 THEN 0 ELSE DecimalValue(s, k - 1) * 10 + DigitValue(s[k])

\* std::stoi (strtol, base 10): leading white space is skipped, an optional
\* sign is taken, the digits that follow are converted and whatever comes
\* after them is ignored; std::invalid_argument without a digit there,
\* std::out_of_range beyond int (here: more than nine digits).
Stoi(s) ==
    LET spaces == Cardinality({k \in 1..Len(s) : \A j \in 1..k : s[j] = " "})
        signed == spaces < Len(s) /\ s[spaces + 1] \in {"+", "-"}
        digits == SubSeq(s, spaces + (IF signed THEN 2 ELSE 1), Len(s))
        k == DigitPrefix(digits)
    IN  IF k = 0 \/ k > 9 THEN [ok |-> FALSE, value |-> 0]
        ELSE [ok |-> TRUE,
              value |-> IF signed /\ s[spaces + 1] = "-"
                        THEN 0 - DecimalValue(digits, k)
                        ELSE DecimalValue(digits, k)]

\* static_cast<uint16_t>
ToUint16(v) == v % 65536

DiffersFromSelfAlways(id) == TRUE

\* info.id != svc_->id_
DiffersFromSelf(id) == id # Self.id

\* InternalServerListener::OnReceive(session, buffer) with listener_ in
\* state lst; every exception is caught inside.
OnReceiveResult(data, lst) ==
    LET p1 == StringFind(data, "|", 0)
        p2 == StringFind(data, "|", SizeTSucc(p1))
        p3 == StringFind(data, "|", SizeTSucc(p2))
        seen == [Nothing EXCEPT !.listenerWas = lst]
    IN  IF p1 # Npos /\ p2 # Npos /\ p3 # Npos
        THEN LET type == Substr(data, 0, p1)
                 id == Substr(data, p1 + 1, p2 - p1 - 1)
                 port == Stoi(Substr(data, p2 + 1, p3 - p2 - 1))
                 version == SubstrToEnd(data, p3 + 1)
             IN  IF ~port.ok THEN [seen EXCEPT !.caught = TRUE]
                 ELSE IF DiffersFromSelf(id) /\ type = Self.type /\ lst = "alive"
                 THEN [seen EXCEPT !.found = TRUE, !.type = type, !.id = id,
                                   !.port = ToUint16(port.value), !.version = version]
                 ELSE seen
        ELSE seen

DecimalDigits == <<"0", "1", "2", "3", "4", "5", "6", "7", "8", "9">>

\* operator<< of an unsigned integer
RECURSIVE ToDecimal(_)
ToDecimal(n) ==
    IF n < 10 THEN <<DecimalDigits[n + 1]>>
    ELSE ToDecimal(n \div 10) \o <<DecimalDigits[(n % 10) + 1]>>

\* DiscoveryLoop: oss << type_ << '|' << id_ << '|' << port_ << '|' << version_
BroadcastMessage ==
    Self.type \o <<"|">> \o Self.id \o <<"|">> \o ToDecimal(Self.port) \o <<"|">> \o Self.version

\* The UdpServer hands a datagram to OnReceive.
OnReceive ==
    /\ ~dfault
    /\ dsvc.server_up
    /\ dstage = "arrived"
    /\ onfound' = OnReceiveResult(dgram, listener)
    /\ dstage' = "handled"
    /\ UNCHANGED <<dsvc, dpc, dwrk, dlast, stoppedSince, sentAfterStop, dfault, listener, dgram>>
    /\ DiscoveryOnly

\* The datagrams that follow the first one: a peer's announcement, the
\* service's own announcement, a fragment.
LaterDatagrams == {<<"t", "|", "t", "|", "7", "|">>, BroadcastMessage, <<"t", "|", "t">>}

\* The next datagram reaches the socket.
Arrive(d) ==
    /\ ~dfault
    /\ dsvc.server_up
    /\ dstage = "handled"
    /\ dgram' = d
    /\ dstage' = "arrived"
    /\ onfound' = Nothing
    /\ UNCHANGED <<dsvc, dpc, dwrk, dlast, stoppedSince, sentAfterStop, dfault, listener>>
    /\ DiscoveryOnly

\* A started service whose worker is in its loop, and a first datagram.
InitDatagram ==
    /\ InitPipeline
    /\ IdleSource
    /\ IdleCapture
    /\ IdleFrame
    /\ IdleEngine
    /\ IdleServices
    /\ IdleConvert
    /\ IdleOrder
    /\ IdleWire
    /\ IdleScaler
    /\ IdleCallback
    /\ IdleQueue
    /\ stoppedSince = FALSE
    /\ sentAfterStop = FALSE
    /\ dfault = FALSE
    /\ dpc = "idle"
    /\ dsvc = [running_ |-> TRUE, discovery_thread_ |-> 1, server_up |-> TRUE]
    /\ dwrk = [NoDWorkers EXCEPT ![1] = "loop"]
    /\ dlast = [op |-> "Start", wasRunning |-> FALSE, wasJoinable |-> FALSE,
                afterStop |-> FALSE, changed |-> TRUE, spawned |-> 1, fresh |-> TRUE,
                runningAfter |-> TRUE]
    /\ listener \in {"unset", "alive", "released"}
    /\ dgram \in Datagrams
    /\ dstage = "arrived"
    /\ onfound = Nothing

NextDatagram ==
    \/ OnReceive
    \/ \E d \in LaterDatagrams : Arrive(d)
    \/ \E alive \in BOOLEAN : SetListener(alive)

SpecDatagram == InitDatagram /\ [][NextDatagram]_vars

--------------------------------------------------------------------------
(* ServiceManager: every public method runs under mutex_ from its first    *)
(* statement to its return, so each is one step.                           *)

ServicesOnly == UNCHANGED OutsideServices

AlreadyRegisteredNever(m, name) == FALSE

\* Register: services_.find(descriptor) != services_.end()
AlreadyRegistered(m, name) == m[name].present

AlreadyStartedNever(info) == FALSE

\* StartService: if (info->is_running) return true
AlreadyStarted(info) == info.is_running

\* One call made on behalf of a ServiceInfo: its creator, or Start or Stop
\* of its instance, with is_running as it was at the call.
CallOf(fn, name, info, ok) ==
    [fn |-> fn, name |-> name, wasRunning |-> info.is_running, ok |-> ok]

\* ServiceManager::Register
RegisterResult(m, name, d) ==
    IF AlreadyRegistered(m, name)
    THEN [ret |-> FALSE, services |-> m]
    ELSE [ret |-> TRUE,
          services |-> [m EXCEPT ![name] = [NoEntry EXCEPT !.present = TRUE, !.delegator = d]]]

StopsBeforeEraseAlways(info) == TRUE

\* Unregister: if (it->second->is_running && it->second->instance)
StopsBeforeErase(info) == info.is_running /\ info.instance

\* ServiceManager::GetAllServices
GetAllServices(m) == {n \in Descriptors : m[n].present}

\* ServiceManager::GetServiceInfo: the entry, or NoEntry for nullptr
GetServiceInfo(m, name) == IF m[name].present THEN m[name] ELSE NoEntry

\* ServiceManager::IsServiceRunning
IsServiceRunningResult(m, name) == m[name].present /\ m[name].is_running

\* ServiceManager::Unregister
UnregisterResult(m, name) ==
    IF m[name].present
    THEN [services |-> [m EXCEPT ![name] = NoEntry],
          calls |-> IF StopsBeforeErase(m[name])
                    THEN {CallOf("Stop", name, m[name], TRUE)} ELSE {}]
    ELSE [services |-> m, calls |-> {}]

\* The part of StartService and of StartAllServices that starts one entry
\* that is not running: create the instance if there is none, call Start,
\* set is_running on success.  The creator made by Register never returns
\* null.
StartEntry(name, info, startOk) ==
    LET created == IF info.instance THEN info
                   ELSE [info EXCEPT !.instance = TRUE, !.creations = @ + 1]
    IN  [info |-> [created EXCEPT !.is_running = startOk],
         calls |-> (IF info.instance THEN {} ELSE {CallOf("creator", name, info, TRUE)})
                       \cup {CallOf("Start", name, created, startOk)},
         ret |-> startOk]

\* The call returns: what it did is recorded.
SReturn(op, name, d, ret, m2, calls) ==
    /\ services_' = m2
    /\ sprev' = services_
    /\ slast' = [op |-> op, name |-> name, by |-> d, ret |-> ret, calls |-> calls]

\* ServiceDelegator<T>::ServiceDelegator with T::GetName() = name
ConstructDelegator(d, name) ==
    /\ ~delegators[d].alive
    /\ LET r == RegisterResult(services_, name, d) IN
          /\ delegators' = [delegators EXCEPT
                               ![d] = [alive |-> TRUE,
                                       descriptor_ |-> IF r.ret THEN name ELSE ""]]
          /\ SReturn("Register", name, d, r.ret, r.services, {})
    /\ ServicesOnly

\* ServiceDelegator<T>::~ServiceDelegator
DestroyDelegator(d) ==
    /\ delegators[d].alive
    /\ delegators' = [delegators EXCEPT ![d] = [alive |-> FALSE, descriptor_ |-> ""]]
    /\ IF delegators[d].descriptor_ # ""
       THEN LET r == UnregisterResult(services_, delegators[d].descriptor_) IN
                SReturn("~ServiceDelegator", delegators[d].descriptor_, d, TRUE, r.services, r.calls)
       ELSE SReturn("~ServiceDelegator", "", d, FALSE, services_, {})
    /\ ServicesOnly

\* ServiceManager::Unregister called directly
Unregister(name) ==
    /\ LET r == UnregisterResult(services_, name) IN
          SReturn("Unregister", name, NoDelegator, services_[name].present, r.services, r.calls)
    /\ UNCHANGED delegators
    /\ ServicesOnly

\* ServiceManager::StartService
StartService(name, startOk) ==
    /\ IF ~services_[name].present
       THEN SReturn("StartService", name, NoDelegator, FALSE, services_, {})
       ELSE IF AlreadyStarted(services_[name])
       THEN SReturn("StartService", name, NoDelegator, TRUE, services_, {})
       ELSE LET r == StartEntry(name, services_[name], startOk) IN
                SReturn("StartService", name, NoDelegator, r.ret,
                        [services_ EXCEPT ![name] = r.info], r.calls)
    /\ UNCHANGED delegators
    /\ ServicesOnly

\* ServiceManager::StopService
StopService(name) ==
    /\ LET info == services_[name] IN
          IF info.present /\ info.is_running /\ info.instance
          THEN SReturn("StopService", name, NoDelegator, TRUE,
                       [services_ EXCEPT ![name].is_running = FALSE],
                       {CallOf("Stop", name, info, TRUE)})
          ELSE SReturn("StopService", name, NoDelegator, TRUE, services_, {})
    /\ UNCHANGED delegators
    /\ ServicesOnly

\* ServiceManager::StartAllServices; startOk[n] is what the Start of the
\* instance of n returns
StartAllServices(startOk) ==
    /\ LET todo == {n \in Descriptors : services_[n].present /\ ~services_[n].is_running}
           r == [n \in Descriptors |-> StartEntry(n, services_[n], startOk[n])]
       IN  SReturn("StartAllServices", "", NoDelegator, \A n \in todo : r[n].ret,
                   [n \in Descriptors |-> IF n \in todo THEN r[n].info ELSE services_[n]],
                   UNION {r[n].calls : n \in todo})
    /\ UNCHANGED delegators
    /\ ServicesOnly

\* ServiceManager::StopAllServices
StopAllServices ==
    /\ LET todo == {n \in Descriptors : services_[n].present /\ services_[n].is_running
                                          /\ services_[n].instance}
       IN  SReturn("StopAllServices", "", NoDelegator, TRUE,
                   [n \in Descriptors |-> IF n \in todo
                                           THEN [services_[n] EXCEPT !.is_running = FALSE]
                                           ELSE services_[n]],
                   {CallOf("Stop", n, services_[n], TRUE) : n \in todo})
    /\ UNCHANGED delegators
    /\ ServicesOnly

\* ServiceManager::IsServiceRunning
IsServiceRunning(name) ==
    /\ SReturn("IsServiceRunning", name, NoDelegator,
               IsServiceRunningResult(services_, name), services_, {})
    /\ UNCHANGED delegators
    /\ ServicesOnly

NextServices ==
    \/ \E d \in Delegators : \E name \in Descriptors : ConstructDelegator(d, name)
    \/ \E d \in Delegators : DestroyDelegator(d)
    \/ \E name \in Descriptors : Unregister(name)
    \/ \E name \in Descriptors : \E startOk \in BOOLEAN : StartService(name, startOk)
    \/ \E name \in Descriptors : StopService(name)
    \/ \E startOk \in [Descriptors -> BOOLEAN] : StartAllServices(startOk)
    \/ StopAllServices
    \/ \E name \in Descriptors : IsServiceRunning(name)

SpecServices == InitLink /\ [][NextServices]_vars

--------------------------------------------------------------------------
(* Claims about the Pipeline                                               *)

LogIdx == 1..Len(callLog)

FailedAt(i) == i \in LogIdx /\ ~callLog[i].ret

\* C1: Pipeline.Start invokes the source's Start only after the Start of every
\* processor and of the sink has returned true; a failing Start is the last
\* call made, Start then returns false, and after a failing processor or sink
\* the source's Start is not invoked.
C1_SourceStartedLast ==
    lastOp = "Start" =>
        /\ \A i \in LogIdx : callLog[i].node \in Sources =>
              \A n \in Range(processors_) \cup (({sink_}) \ {Null}) :
                 \E j \in 1..(i - 1) : callLog[j].node = n /\ callLog[j].ret
        /\ \A i \in LogIdx : FailedAt(i) => i = Len(callLog) /\ retVal = FALSE
        /\ (\E i \in LogIdx : FailedAt(i) /\ callLog[i].node \notin Sources) =>
              \A j \in LogIdx : callLog[j].node \notin Sources

\* C1 witness: a Start that reached the source after two processors and a sink.
C1_Witness ==
    /\ lastOp = "Start"
    /\ Len(processors_) = 2
    /\ sink_ # Null
    /\ \E i \in LogIdx : callLog[i].node \in Sources /\ callLog[i].ret

\* C2 as stated: the sink is started before the processors, so when a
\* processor's Start fails the sink has already been started.
C2_SinkStartedBeforeProcessors ==
    (lastOp = "Start" /\ sink_ # Null) =>
        \A i \in LogIdx : (FailedAt(i) /\ callLog[i].node \in Procs) =>
            \E j \in 1..(i - 1) : callLog[j].node = sink_ /\ callLog[j].ret

\* C2 amended: Pipeline.Start starts the processors in forward order, then the
\* sink, then the source; when the sink's Start fails, Start returns false with
\* every processor already started and none of them stopped again.
C2_ProcessorsThenSinkThenSource ==
    lastOp = "Start" =>
        /\ \A i, j \in LogIdx :
              \/ callLog[i].node \in Procs /\ callLog[j].node \in Sinks \cup Sources
              \/ callLog[i].node \in Sinks /\ callLog[j].node \in Sources
              => i < j
        /\ \A i \in LogIdx : callLog[i].node \in Procs =>
              i <= Len(processors_) /\ callLog[i].node = processors_[i]
        /\ \A i \in LogIdx : callLog[i].op = "Start"
        /\ \A i \in LogIdx : (FailedAt(i) /\ callLog[i].node \in Sinks) =>
              /\ retVal = FALSE
              /\ i = Len(processors_) + 1
              /\ Range(processors_) \subseteq started

\* C2 witness: the sink's Start failed after a processor had been started.
C2_Witness ==
    /\ lastOp = "Start"
    /\ Len(processors_) >= 1
    /\ \E i \in LogIdx : FailedAt(i) /\ callLog[i].node = sink_

\* C3: Pipeline.Stop stops the source first, then every processor in insertion
\* order, then the sink last; every configured component is stopped.
C3_StopSourceFirstSinkLast ==
    lastOp = "Stop" =>
        /\ \A i, j \in LogIdx :
              \/ callLog[i].node \in Sources /\ callLog[j].node \in Procs \cup Sinks
              \/ callLog[i].node \in Procs /\ callLog[j].node \in Sinks
              => i < j
        /\ LET off == IF source_ = Null THEN 0 ELSE 1
           IN  /\ \A k \in 1..Len(processors_) :
                     /\ k + off \in LogIdx
                     /\ callLog[k + off].node = processors_[k]
               /\ source_ # Null => callLog # <<>> /\ callLog[1].node = source_
               /\ sink_ # Null => callLog # <<>> /\ callLog[Len(callLog)].node = sink_
               /\ Len(callLog) = Len(processors_) + off + (IF sink_ = Null THEN 0 ELSE 1)
        /\ \A i \in LogIdx : callLog[i].op = "Stop"

\* C3 witness: a Stop of a pipeline with a source, two distinct processors and a sink.
C3_Witness ==
    /\ lastOp = "Stop"
    /\ source_ # Null
    /\ sink_ # Null
    /\ Len(processors_) = 2
    /\ processors_[1] # processors_[2]

NoDup(list) == \A i, j \in 1..Len(list) : list[i] = list[j] => i = j

\* C6: whenever LinkAll returns true the edges are exactly the linear chain
\* over the configured components: the source's only sink is the first
\* processor (or the terminal sink), each processor's only sink is the next
\* one, the last processor's only sink is the terminal sink; when LinkAll
\* returns false the source or the sink is unset and no edge was added.
C6_LinkAllExactChain ==
    lastOp = "LinkAll" =>
        IF retVal
        THEN /\ source_ # Null /\ sink_ # Null
             /\ sinks_[source_] =
                   <<IF processors_ = <<>> THEN sink_ ELSE processors_[1]>>
             /\ \A i \in 1..Len(processors_) :
                   sinks_[processors_[i]] =
                      <<IF i = Len(processors_) THEN sink_ ELSE processors_[i + 1]>>
        ELSE /\ source_ = Null \/ sink_ = Null
             /\ sinks_ = prevSinks

\* C7: LinkAll called twice in a row leaves every upstream's sink list as it
\* was after the first call, and no list holds a sink twice.
C7_LinkAllIdempotent ==
    (lastOp = "LinkAll" /\ prevOp = "LinkAll") =>
        /\ sinks_ = prevSinks
        /\ \A u \in Upstreams : NoDup(sinks_[u])
        /\ \A u \in Upstreams : GetSinkCount(sinks_[u]) = GetSinkCount(prevSinks[u])

\* C7 witness: the second of two successful LinkAll calls on source -> p -> p' -> sink.
C7_Witness ==
    /\ lastOp = "LinkAll"
    /\ prevOp = "LinkAll"
    /\ retVal
    /\ Len(processors_) = 2
    /\ sinks_[source_] # <<>>

--------------------------------------------------------------------------
(* Claims about one ISource used from several threads                      *)

InWrite(t) == tpc[t] \in {"add_cs", "rm_cs", "clr_cs"}

InDeliver(t) == tpc[t] \in {"dl_loop", "dl_onframe"}

\* The sink whose OnFrame thread t is executing.
Executing(t) == Last(delivered[t])[1]

\* C5: once RemoveSink(s) or ClearSinks has returned, s.OnFrame is not executing
\* for this source and is not invoked until s is added again; a structural
\* change runs with no DeliverFrame in flight and with no other structural
\* change in progress.
C5_RemovedSinkNotInvoked ==
    /\ \A t \in Threads : tpc[t] = "dl_onframe" => Executing(t) \notin removed
    /\ \A t, u \in Threads : (InWrite(t) /\ InWrite(u)) => t = u
    /\ \A t, u \in Threads : InWrite(t) => ~InDeliver(u)

\* C5 witness: a removal has returned while another sink's OnFrame is executing.
C5_Witness ==
    /\ removed # {}
    /\ lastWrite = "removed"
    /\ \E t \in Threads : tpc[t] = "dl_onframe"

\* C8: the sink list never holds a sink twice nor a null entry; AddSink of a
\* sink that is already there leaves the count as it was.
C8_NoDuplicateNoNull ==
    /\ NoDup(fanout)
    /\ Null \notin Range(fanout)
    /\ GetSinkCount(fanout) = Cardinality(Range(fanout))

\* C8 witness: AddSink(s); AddSink(s) has just completed and the count is 1.
C8_Witness ==
    /\ lastWrite = "rejected"
    /\ GetSinkCount(fanout) = 1

\* C9: within one DeliverFrame, a sink added before another is invoked before
\* it: when s2 is invoked every sink added before s2 has been invoked already,
\* and the sinks invoked so far were invoked in the order they were added.
C9_DeliveryInInsertionOrder ==
    \A t \in Threads : InDeliver(t) =>
        /\ \A i, j \in 1..Len(delivered[t]) :
              i < j => <<delivered[t][i][1], delivered[t][j][1]>> \in addedBefore
        /\ \A j \in 1..Len(delivered[t]) : \A s1 \in FanSinks :
              <<s1, delivered[t][j][1]>> \in addedBefore =>
                 \E i \in 1..(j - 1) : delivered[t][i][1] = s1

\* C9 witness: a delivery has reached its second sink after some sink was removed.
C9_Witness ==
    \E t \in Threads :
        /\ tpc[t] = "dl_onframe"
        /\ Len(delivered[t]) = 2
        /\ removed # {}

\* C10: when the loop of DeliverFrame ends, OnFrame has been invoked exactly
\* once on every sink that was in the list when the delivery began, on no other
\* sink, and each invocation received the very frame the producer passed in.
C10_EachSinkOnceSameFrame ==
    \A t \in Threads :
        /\ InDeliver(t) =>
              \A i \in 1..Len(delivered[t]) :
                 /\ delivered[t][i][2] = tframe[t]
                 /\ delivered[t][i][1] \in Range(snap[t])
        /\ (tpc[t] = "dl_loop" /\ tidx[t] > Len(fanout)) =>
              \A s \in Range(snap[t]) :
                 Cardinality({i \in 1..Len(delivered[t]) : delivered[t][i][1] = s}) = 1

\* C10 witness: a delivery to two sinks has completed its loop.
C10_Witness ==
    \E t \in Threads :
        /\ tpc[t] = "dl_loop"
        /\ tidx[t] > Len(fanout)
        /\ Len(snap[t]) = 2
        /\ Len(delivered[t]) = 2

--------------------------------------------------------------------------
(* Claims about a pipeline fed by a ScreenCapturer                         *)

\* C4: once Pipeline.Stop has returned (and until Pipeline.Start is called
\* again) no OnFrame of a processor or sink is executing, the frame callback
\* is not running, and no capture worker is left that could invoke one.
C4_QuiescentAfterStop ==
    stopReturned =>
        /\ ExecutingOnFrame = {}
        /\ wstack = <<>>
        /\ wpc = "none"
        /\ ~is_running_

\* C4 witness: Pipeline.Stop has returned after a Stop that raised should_stop_
\* while the worker was inside the frame callback.
C4_Witness ==
    /\ stopReturned
    /\ stopInCallback
    /\ mpc = "idle"

--------------------------------------------------------------------------
(* Claims about the frames reaching a sink                                 *)

\* C11: every frame that reaches a terminal sink's OnFrame is valid (data
\* present, size > 0) and its format is not UNKNOWN.
C11_SinkFrameValidAndKnownFormat ==
    sinkFrame.ptr => FrameIsValid(sinkFrame) /\ sinkFrame.format # UNKNOWN

--------------------------------------------------------------------------
(* Claims about the capture engine                                         *)

\* C12: under any Start and Stop calls from any threads at most one capture
\* worker is alive; whenever no call holds the engine's mutex, and in every
\* value IsRunning returns, is_running holds exactly when a worker is alive;
\* Start on a running engine returns Success and spawns nothing; Stop on a
\* stopped engine changes no field; when Stop returns no worker is alive and
\* is_running is false; Start on a stopped engine spawns exactly one worker,
\* a thread that did not exist before.
C12_EngineLifecycle ==
    /\ AliveCount(wrk) <= 1
    /\ eng.mutex_ = NoCaller => (eng.is_running_ <=> AliveCount(wrk) = 1)
    /\ last.op = "IsRunning" => (last.ret = "true" <=> last.aliveAfter = 1)
    /\ last.op = "Start" /\ last.wasRunning => last.ret = "Success" /\ last.spawned = 0
    /\ last.op = "Stop" /\ ~last.wasRunning => ~last.changed
    /\ last.op = "Stop" => last.aliveAfter = 0 /\ ~last.runningAfter
    /\ last.op = "Start" /\ ~last.wasRunning =>
          /\ last.ret = "Success"
          /\ last.spawned = 1
          /\ last.fresh
          /\ last.runningAfter

\* A Start that found the engine stopped after an earlier worker was joined
\* has returned, while another thread is calling Start on the running engine.
C12_Witness ==
    /\ last.op = "Start"
    /\ ~last.wasRunning
    /\ \E w \in Workers : wrk[w] = "joined"
    /\ \E c \in Callers : cpc[c] = "st_lock"
    /\ eng.is_running_

\* C13: UpdateConfig on a capture engine always returns and never blocks on
\* the engine's own mutex: no thread inside UpdateConfig requests mutex_
\* while it owns it, none is blocked on it, and no deadlock ends the process.
C13_UpdateConfigNeverRelocks ==
    /\ \A c \in Callers :
          ~(cpc[c] \in {"uc_stop_lock", "uc_init_lock", "uc_blocked"} /\ eng.mutex_ = c)
    /\ fault # "resource_deadlock"

C15_ZeroFrameRateRejected ==
    /\ fault # "SIGFPE"
    /\ last.op = "Initialize" /\ last.frame_rate = 0 =>
          /\ last.ret = "ErrorInvalidConfig"
          /\ ~last.displayAfter
          /\ ~last.runningAfter

--------------------------------------------------------------------------
(* Claims about the discovery service                                      *)

\* C18: once Stop has returned, and until the next Start, the running flag
\* is clear, no worker is alive and no broadcast is sent; a Stop on a
\* service that was never started or is already stopped changes nothing; a
\* Start after a completed Stop runs exactly one new worker.
C18_DiscoveryLifecycle ==
    /\ ~sentAfterStop
    /\ stoppedSince =>
          /\ ~dsvc.running_
          /\ \A w \in DWorkers : ~DiscoveryAlive(dwrk[w])
    /\ dlast.op = "Stop" /\ ~dlast.wasRunning /\ ~dlast.wasJoinable => ~dlast.changed
    /\ dlast.op = "Start" /\ dlast.afterStop =>
          /\ dlast.spawned = 1
          /\ dlast.fresh
          /\ dlast.runningAfter
          /\ ~dlast.wasRunning

\* The service was started, stopped, its worker joined, and started again;
\* the second worker is in its loop.
C18_Witness ==
    /\ dlast.op = "Start"
    /\ dlast.afterStop
    /\ \E w \in DWorkers : dwrk[w] = "joined"
    /\ \E w \in DWorkers : dwrk[w] = "sleep"

\* The fields of a datagram as the wire format type|id|port|version
\* defines them: what lies before, between and after its first three
\* separators.
Seps(d) == {i \in 1..Len(d) : d[i] = "|"}

KthSep(d, k) == CHOOSE i \in Seps(d) : Cardinality({j \in Seps(d) : j < i}) = k - 1

TypeField(d) == SubSeq(d, 1, KthSep(d, 1) - 1)

IdField(d) == SubSeq(d, KthSep(d, 1) + 1, KthSep(d, 2) - 1)

PortField(d) == SubSeq(d, KthSep(d, 2) + 1, KthSep(d, 3) - 1)

\* The port field begins with a decimal number.
BeginsWithNumber(f) == f # <<>> /\ IsDigit(f[1])

\* The port field is a decimal number.
IsNumber(f) == f # <<>> /\ \A i \in 1..Len(f) : IsDigit(f[i])

C17_MalformedNeverReported ==
    (/\ dstage = "handled"
     /\ \/ Cardinality(Seps(dgram)) < 3
        \/ ~IsNumber(PortField(dgram))) =>
        /\ ~onfound.found
        /\ ~onfound.escaped
        /\ dsvc.running_
        /\ dsvc.server_up

--------------------------------------------------------------------------
(* Claims about the service registry                                       *)

\* C19: Register with a descriptor that is already registered returns
\* false and leaves the registry, the existing entry (its creator and
\* delegator, its instance, is_running) included, as it was; the delegator
\* of a rejected registration keeps an empty descriptor_ and its destructor
\* changes nothing.
C19_DuplicateRegistrationRejected ==
    /\ slast.op = "Register" /\ sprev[slast.name].present =>
          /\ ~slast.ret
          /\ services_ = sprev
          /\ delegators[slast.by].descriptor_ = ""
    /\ \A d \in Delegators :
          delegators[d].alive /\ delegators[d].descriptor_ = "" =>
              \A n \in Descriptors : services_[n].delegator # d
    /\ slast.op = "~ServiceDelegator" /\ ~slast.ret =>
          services_ = sprev /\ slast.calls = {}

\* The delegator of a rejected registration has been destroyed while the
\* entry registered first is running.
C19_Witness ==
    /\ slast.op = "~ServiceDelegator"
    /\ ~slast.ret
    /\ \E n \in Descriptors : services_[n].present /\ services_[n].is_running

\* C20: is_running implies that the instance exists; Start of an instance
\* is called only while is_running is false and Stop only while it is true;
\* StartService on a running service returns true and calls nothing,
\* StartService on an unknown descriptor returns false and calls nothing;
\* the creator is called at most once per registration; a failed Start
\* leaves is_running false.
C20_RegistryLifecycle ==
    /\ \A n \in Descriptors : services_[n].is_running => services_[n].instance
    /\ \A n \in Descriptors : services_[n].creations <= 1
    /\ \A c \in slast.calls :
          /\ c.fn = "Start" => ~c.wasRunning
          /\ c.fn = "Stop" => c.wasRunning
          /\ c.fn = "Start" /\ ~c.ok => ~services_[c.name].is_running
    /\ slast.op = "StartService" /\ sprev[slast.name].present
                                 /\ sprev[slast.name].is_running =>
          slast.ret /\ slast.calls = {}
    /\ slast.op = "StartService" /\ ~sprev[slast.name].present =>
          ~slast.ret /\ slast.calls = {}
    /\ slast.op = "StartService" /\ ~slast.ret => ~services_[slast.name].is_running

\* StartService has just been rejected by a failing Start of an instance
\* created earlier, while the other service is running.
C20_Witness ==
    /\ slast.op = "StartService"
    /\ ~slast.ret
    /\ \E c \in slast.calls : c.fn = "Start" /\ ~c.ok
    /\ \A c \in slast.calls : c.fn # "creator"
    /\ \E n \in Descriptors : services_[n].is_running

\* C21: Unregister calls Stop on the instance exactly when the entry was
\* running, and removes the entry: afterwards the descriptor is not in
\* GetAllServices, IsServiceRunning is false and GetServiceInfo is null, and
\* no other entry has changed; Unregister of an unknown descriptor changes
\* nothing and calls nothing.
C21_UnregisterStopsAndRemoves ==
    slast.op = "Unregister" =>
        /\ slast.ret <=> sprev[slast.name].present
        /\ (\E c \in slast.calls : c.fn = "Stop" /\ c.name = slast.name)
              <=> (sprev[slast.name].present /\ sprev[slast.name].is_running)
        /\ \A c \in slast.calls : c.fn = "Stop" /\ c.name = slast.name
        /\ slast.name \notin GetAllServices(services_)
        /\ ~IsServiceRunningResult(services_, slast.name)
        /\ GetServiceInfo(services_, slast.name) = NoEntry
        /\ \A n \in Descriptors \ {slast.name} : services_[n] = sprev[n]
        /\ ~sprev[slast.name].present => services_ = sprev /\ slast.calls = {}

\* A running service has just been unregistered, with its Stop called,
\* while the other service stays registered.
C21_Witness ==
    /\ slast.op = "Unregister"
    /\ sprev[slast.name].is_running
    /\ slast.calls # {}
    /\ GetAllServices(services_) # {}

(***************************************************************************)
(* PixelFormatConverter: source -> converter -> converter -> sink, one     *)
(* frame pushed through.  A frame is its reference (ref), its buffer       *)
(* (bytes) and its header; cvtrace[1] is what the source produced and      *)
(* cvtrace[k + 1] what converter k delivered to its sinks.                 *)

ConvertOnly == UNCHANGED OutsideConvert

I420 == 101
RGB24 == 103
BGR24 == 104
PCM_S16LE == 201

\* Largest input width and height drawn.
MaxWidth == 4
MaxHeight == 2

\* A byte of a freshly allocated buffer that no statement has written.
Indeterminate == 256

\* Pixels the source draws from, as bytes in memory order.
Colours == << <<255, 0, 0, 255>>, <<0, 0, 255, 255>>, <<10, 200, 30, 40>>,
              <<0, 255, 0, 0>>, <<77, 150, 29, 128>> >>

\* PixelFormatConverter::IsFormatSupported
SupportedFormats == {RGB24, BGR24, RGBA32, BGRA32, I420}

\* No frame: a null shared_ptr<Frame>.
NoFrame == [ptr |-> FALSE, ref |-> 0, data |-> FALSE, size |-> 0, format |-> UNKNOWN,
            width |-> 0, height |-> 0, bytes |-> <<>>]

\* PixelFormatConverter::CalculateOutputFrameSize
CalculateOutputFrameSize(width, height, format) ==
    IF format \in {RGB24, BGR24} THEN width * height * 3
    ELSE IF format \in {RGBA32, BGRA32} THEN width * height * 4
    ELSE IF format = I420 THEN width * height + ((width * height) \div 2)
    ELSE 0

\* The loop shared by the channel-swapping conversions: for each pixel i and
\* output channel c, dst[i * outBpp + c] = src[i * inBpp + from[c]]; a
\* from[c] of inBpp stands for the constant 255 (opaque alpha).
Repack(src, width, height, inBpp, from) ==
    LET outBpp == Len(from)
        pixel_count == width * height
    IN  [success |-> TRUE,
         overrun |-> FALSE,
         bytes |-> [k \in 1..(pixel_count * outBpp) |->
                       LET i == (k - 1) \div outBpp
                           c == (k - 1) % outBpp
                       IN  IF from[c + 1] >= inBpp THEN 255
                           ELSE src[i * inBpp + from[c + 1] + 1]]]

ConvertBGRA32ToRGBA32Copy(src, width, height) == Repack(src, width, height, 4, <<0, 1, 2, 3>>)

ConvertBGRA32ToRGBA32(src, width, height) == Repack(src, width, height, 4, <<2, 1, 0, 3>>)

ConvertRGBA32ToBGRA32Copy(src, width, height) == Repack(src, width, height, 4, <<0, 1, 2, 3>>)

ConvertRGBA32ToBGRA32(src, width, height) == Repack(src, width, height, 4, <<2, 1, 0, 3>>)

ConvertRGB24ToBGR24(src, width, height) == Repack(src, width, height, 3, <<2, 1, 0>>)

ConvertBGR24ToRGB24(src, width, height) == ConvertRGB24ToBGR24(src, width, height)

\* std::clamp(v, 0, 255)
Clamp(v) == IF v < 0 THEN 0 ELSE IF v > 255 THEN 255 ELSE v

LumaRounded(r, g, b) == Clamp((77 * r + 150 * g + 29 * b + 128) \div 256)

\* int Y = (77 * r + 150 * g + 29 * b) >> 8, clamped
Luma(r, g, b) == Clamp((77 * r + 150 * g + 29 * b) \div 256)

\* int U = ((-43 * r - 85 * g + 128 * b) >> 8) + 128, clamped
ChromaU(r, g, b) == Clamp(((0 - 43 * r - 85 * g + 128 * b) \div 256) + 128)

\* int V = ((128 * r - 107 * g - 21 * b) >> 8) + 128, clamped
ChromaV(r, g, b) == Clamp(((128 * r - 107 * g - 21 * b) \div 256) + 128)

\* The loop shared by the four Convert...ToI420 functions; ri, gi, bi are
\* the offsets of the channels in a source pixel.  Pixels are visited row by
\* row; each writes its Y, and a pixel at even (x, y) then writes U and V.
\* A byte of dst holds its last write; overrun tells whether some write fell
\* outside the output_size bytes of dst.
ConvertToI420(src, width, height, bpp, ri, gi, bi) ==
    LET size == CalculateOutputFrameSize(width, height, I420)
        u_plane == width * height
        v_plane == width * height + ((width * height) \div 4)
        R(p) == src[p * bpp + ri + 1]
        G(p) == src[p * bpp + gi + 1]
        B(p) == src[p * bpp + bi + 1]
        Subsampled(p) == ((p \div width) % 2 = 0) /\ ((p % width) % 2 = 0)
        uv_idx(p) == ((p \div width) \div 2) * (width \div 2) + ((p % width) \div 2)
        \* chroma write n: pixel n \div 2, U when n is even and V when odd
        Offset(n) == IF n % 2 = 0 THEN u_plane + uv_idx(n \div 2)
                     ELSE v_plane + uv_idx(n \div 2)
        Writes == {n \in 0..(2 * width * height - 1) : Subsampled(n \div 2)}
        LastWrite(k) == LET hits == {n \in Writes : Offset(n) = k}
                        IN  IF hits = {} THEN -1
                            ELSE CHOOSE n \in hits : \A m \in hits : m <= n
        Byte(k) ==
            IF k < u_plane THEN Luma(R(k), G(k), B(k))
            ELSE LET n == LastWrite(k)
                 IN  IF n < 0 THEN Indeterminate
                     ELSE IF n % 2 = 0 THEN ChromaU(R(n \div 2), G(n \div 2), B(n \div 2))
                     ELSE ChromaV(R(n \div 2), G(n \div 2), B(n \div 2))
    IN  [success |-> TRUE,
         overrun |-> \E n \in Writes : Offset(n) >= size,
         bytes |-> [k \in 1..size |-> Byte(k - 1)]]

ConvertBGRA32ToI420(src, width, height) == ConvertToI420(src, width, height, 4, 2, 1, 0)

Failed == [success |-> FALSE, overrun |-> FALSE, bytes |-> <<>>]

\* PixelFormatConverter::ConvertFromBGRA32
ConvertFromBGRA32(src, width, height, output_format) ==
    IF output_format = RGBA32 THEN ConvertBGRA32ToRGBA32(src, width, height)
    ELSE IF output_format = RGB24 THEN Repack(src, width, height, 4, <<2, 1, 0>>)
    ELSE IF output_format = BGR24 THEN Repack(src, width, height, 4, <<0, 1, 2>>)
    ELSE IF output_format = I420 THEN ConvertBGRA32ToI420(src, width, height)
    ELSE Failed

\* PixelFormatConverter::ConvertFromRGBA32
ConvertFromRGBA32(src, width, height, output_format) ==
    IF output_format = BGRA32 THEN ConvertRGBA32ToBGRA32(src, width, height)
    ELSE IF output_format = RGB24 THEN Repack(src, width, height, 4, <<0, 1, 2>>)
    ELSE IF output_format = BGR24 THEN Repack(src, width, height, 4, <<2, 1, 0>>)
    ELSE IF output_format = I420 THEN ConvertToI420(src, width, height, 4, 0, 1, 2)
    ELSE Failed

\* PixelFormatConverter::ConvertFromRGB24
ConvertFromRGB24(src, width, height, output_format) ==
    IF output_format = BGR24 THEN ConvertRGB24ToBGR24(src, width, height)
    ELSE IF output_format = RGBA32 THEN Repack(src, width, height, 3, <<0, 1, 2, 3>>)
    ELSE IF output_format = BGRA32 THEN Repack(src, width, height, 3, <<2, 1, 0, 3>>)
    ELSE IF output_format = I420 THEN ConvertToI420(src, width, height, 3, 0, 1, 2)
    ELSE Failed

\* PixelFormatConverter::ConvertFromBGR24
ConvertFromBGR24(src, width, height, output_format) ==
    IF output_format = RGB24 THEN ConvertBGR24ToRGB24(src, width, height)
    ELSE IF output_format = RGBA32 THEN Repack(src, width, height, 3, <<2, 1, 0, 3>>)
    ELSE IF output_format = BGRA32 THEN Repack(src, width, height, 3, <<0, 1, 2, 3>>)
    ELSE IF output_format = I420 THEN ConvertToI420(src, width, height, 3, 2, 1, 0)
    ELSE Failed

\* PixelFormatConverter::ConvertFrame: the new frame (reference ref), or
\* NoFrame; overrun as reported by the conversion that ran.
ConvertFrame(input_frame, output_format, ref) ==
    IF ~input_frame.ptr \/ ~FrameIsValid(input_frame)
    THEN [frame |-> NoFrame, overrun |-> FALSE]
    ELSE LET output_size == CalculateOutputFrameSize(input_frame.width, input_frame.height,
                                                     output_format)
             src == input_frame.bytes
             w == input_frame.width
             h == input_frame.height
             done == IF input_frame.format = BGRA32 THEN ConvertFromBGRA32(src, w, h, output_format)
                     ELSE IF input_frame.format = RGBA32 THEN ConvertFromRGBA32(src, w, h, output_format)
                     ELSE IF input_frame.format = RGB24 THEN ConvertFromRGB24(src, w, h, output_format)
                     ELSE IF input_frame.format = BGR24 THEN ConvertFromBGR24(src, w, h, output_format)
                     ELSE Failed
         IN  [frame |-> IF done.success
                        THEN [ptr |-> TRUE, ref |-> ref, data |-> output_size > 0,
                              size |-> output_size, format |-> output_format,
                              width |-> w, height |-> h, bytes |-> done.bytes]
                        ELSE NoFrame,
              overrun |-> done.overrun]

ConversionNeededAlways(frame, output_format) == TRUE

\* OnFrame: if (frame->format == config_.output_format) forwards directly
ConversionNeeded(frame, output_format) == frame.format # output_format

\* What PixelFormatConverter::OnFrame hands to DeliverFrame: the frame
\* itself, a converted frame, or nothing.
OnFrameResult(frame, output_format, ref) ==
    IF ~frame.ptr \/ ~FrameIsValid(frame) \/ ~IsVideo(frame)
    THEN [frame |-> NoFrame, overrun |-> FALSE]
    ELSE IF ~ConversionNeeded(frame, output_format)
    THEN [frame |-> frame, overrun |-> FALSE]
    ELSE ConvertFrame(frame, output_format, ref)

\* The frames the source produces: exactly as many bytes as its header says,
\* pixels taken from Colours starting at first and advancing by step.
SourceFrame(format, width, height, first, step) ==
    LET bpp == IF format \in {RGBA32, BGRA32} THEN 4
               ELSE IF format \in {RGB24, BGR24} THEN 3 ELSE 1
        size == IF format \in SupportedFormats
                THEN CalculateOutputFrameSize(width, height, format)
                ELSE width * height
    IN  [ptr |-> TRUE, ref |-> 1, data |-> size > 0, size |-> size, format |-> format,
         width |-> width, height |-> height,
         bytes |-> [k \in 1..size |->
                       Colours[((first + step * ((k - 1) \div bpp)) % Len(Colours)) + 1]
                              [((k - 1) % bpp) + 1]]]

SourceFrames ==
    {SourceFrame(f, w, h, first, step) :
        f \in SupportedFormats \cup {PCM_S16LE}, w \in 0..MaxWidth, h \in 1..MaxHeight,
        first \in 0..(Len(Colours) - 1), step \in {0, 1}}

\* ISource::DeliverFrame of the node before converter Len(cvtrace), then
\* that converter's OnFrame and its own DeliverFrame.  A write past the
\* output buffer is undefined: the process may die in it or carry on.
PixelFormatConverterOnFrame ==
    /\ cvtrace # <<>>
    /\ Len(cvtrace) <= Len(cvconfig)
    /\ cvfault = "none"
    /\ DeliverFrameForwards(cvtrace[Len(cvtrace)])
    /\ LET k == Len(cvtrace)
           out == OnFrameResult(cvtrace[k], cvconfig[k], k + 1)
       IN  IF out.overrun
           THEN \E survives \in BOOLEAN :
                   /\ cvfault' = "heap_overrun"
                   /\ cvtrace' = Append(cvtrace, IF survives /\ DeliverFrameForwards(out.frame)
                                                 THEN out.frame ELSE NoFrame)
           ELSE /\ cvfault' = "none"
                /\ cvtrace' = Append(cvtrace, IF DeliverFrameForwards(out.frame)
                                              THEN out.frame ELSE NoFrame)
    /\ UNCHANGED cvconfig
    /\ ConvertOnly

InitConvert ==
    /\ InitPipeline
    /\ IdleSource
    /\ IdleCapture
    /\ IdleFrame
    /\ IdleEngine
    /\ IdleDiscovery
    /\ IdleServices
    /\ cvconfig \in SupportedFormats \X SupportedFormats
    /\ cvtrace \in {<<f>> : f \in SourceFrames}
    /\ cvfault = "none"
    /\ IdleOrder
    /\ IdleWire
    /\ IdleScaler
    /\ IdleCallback
    /\ IdleQueue

NextConvert == PixelFormatConverterOnFrame

SpecConvert == InitConvert /\ [][NextConvert]_vars

\* C23: a converter whose output format is the format of the valid video
\* frame it receives delivers that very frame (same reference, same bytes)
\* to its sinks, so behind source -> converter -> sink the sink holds the
\* reference the source produced.
C23_SameFormatForwardsSameReference ==
    \A k \in 1..(Len(cvtrace) - 1) :
        (/\ DeliverFrameForwards(cvtrace[k])
         /\ IsVideo(cvtrace[k])
         /\ cvtrace[k].format = cvconfig[k])
            => /\ cvtrace[k + 1].ref = cvtrace[k].ref
               /\ cvtrace[k + 1] = cvtrace[k]

\* Both converters were configured with the source's format and the sink
\* has received the source's frame.
C23_Witness ==
    /\ Len(cvtrace) = 3
    /\ cvconfig[1] = cvtrace[1].format
    /\ cvconfig[2] = cvtrace[1].format
    /\ cvtrace[3].ptr
    /\ cvtrace[3].ref = 1

\* Converter k received a frame (its upstream delivered one) and has run.
Received(k) == k < Len(cvtrace) /\ DeliverFrameForwards(cvtrace[k])

\* Converter k built the frame it delivered (it did not forward its input).
Emitted(k) == Received(k) /\ cvtrace[k + 1].ptr /\ cvtrace[k + 1].ref # cvtrace[k].ref

Odd(n) == n % 2 = 1

\* C24: every I420 frame a converter emits has
\* size = width * height + 2 * (width / 2) * (height / 2), integer division,
\* whatever the input width and height.
C24_I420SizeFormula ==
    \A k \in 1..2 :
        (Emitted(k) /\ cvtrace[k + 1].format = I420)
            => cvtrace[k + 1].size =
                   cvtrace[k + 1].width * cvtrace[k + 1].height
                   + 2 * (cvtrace[k + 1].width \div 2) * (cvtrace[k + 1].height \div 2)

\* C25: a converter with output format I420 that receives a frame of odd
\* width or odd height delivers nothing downstream for it.
C25_OddDimensionsRejected ==
    \A k \in 1..2 :
        (/\ Received(k)
         /\ cvconfig[k] = I420
         /\ IsVideo(cvtrace[k])
         /\ (Odd(cvtrace[k].width) \/ Odd(cvtrace[k].height)))
            => ~cvtrace[k + 1].ptr

\* The 4 x 2 BGRA32 frame whose every pixel is (B=255, G=0, R=0, A=255).
IsBlueFrame(f) ==
    /\ f.ptr
    /\ f.format = BGRA32
    /\ f.width = 4
    /\ f.height = 2
    /\ f.size = 32
    /\ \A i \in 0..7 : /\ f.bytes[4 * i + 1] = 255
                       /\ f.bytes[4 * i + 2] = 0
                       /\ f.bytes[4 * i + 3] = 0
                       /\ f.bytes[4 * i + 4] = 255

\* The first converter turned the blue frame into I420.
BlueToI420 ==
    /\ Len(cvtrace) >= 2
    /\ IsBlueFrame(cvtrace[1])
    /\ cvconfig[1] = I420

\* The 12-byte I420 frame with Y plane all y, U plane all 255, V plane all 107.
IsBlueI420(f, y) ==
    /\ f.ptr
    /\ f.format = I420
    /\ f.size = 12
    /\ Len(f.bytes) = 12
    /\ \A k \in 1..8 : f.bytes[k] = y
    /\ \A k \in 9..10 : f.bytes[k] = 255
    /\ \A k \in 11..12 : f.bytes[k] = 107

\* Channel c (0 = R, 1 = G, 2 = B) of pixel p of a BGRA32/RGBA32/RGB24/BGR24 frame.
Channel(f, p, c) ==
    LET bpp == IF f.format \in {RGBA32, BGRA32} THEN 4 ELSE 3
        at == IF f.format \in {BGRA32, BGR24} THEN 2 - c ELSE c
    IN  f.bytes[p * bpp + at + 1]

\* Byte k (from 0) of out is the fixed-point formula of the pixel it samples:
\* the Y plane first, then U, then V, the chroma taken at even (x, y).
FollowsFormula(in, out) ==
    LET w == in.width
        h == in.height
        cw == w \div 2
        quarter == cw * (h \div 2)
        Sampled(j) == (2 * (j \div cw)) * w + 2 * (j % cw)
        clamp(v) == IF v < 0 THEN 0 ELSE IF v > 255 THEN 255 ELSE v
        Y(p) == clamp((77 * Channel(in, p, 0) + 150 * Channel(in, p, 1)
                       + 29 * Channel(in, p, 2)) \div 256)
        U(p) == clamp(((0 - 43 * Channel(in, p, 0) - 85 * Channel(in, p, 1)
                        + 128 * Channel(in, p, 2)) \div 256) + 128)
        V(p) == clamp(((128 * Channel(in, p, 0) - 107 * Channel(in, p, 1)
                        - 21 * Channel(in, p, 2)) \div 256) + 128)
    IN  /\ Len(out.bytes) = w * h + 2 * quarter
        /\ \A p \in 0..(w * h - 1) : out.bytes[p + 1] = Y(p)
        /\ \A j \in 0..(quarter - 1) :
              /\ out.bytes[w * h + j + 1] = U(Sampled(j))
              /\ out.bytes[w * h + quarter + j + 1] = V(Sampled(j))

RoundTrip(from, via) ==
    /\ Len(cvtrace) = 3
    /\ cvtrace[1].format = from
    /\ cvconfig = <<via, from>>

\* C27: BGRA32 -> RGBA32 -> BGRA32 and RGB24 -> BGR24 -> RGB24 give back a
\* buffer equal byte for byte to the one that went in.
C27_SwapRoundTrip ==
    (RoundTrip(BGRA32, RGBA32) \/ RoundTrip(RGB24, BGR24))
        => /\ cvtrace[3].ptr
           /\ cvtrace[3].format = cvtrace[1].format
           /\ cvtrace[3].bytes = cvtrace[1].bytes

\* A BGRA32 buffer went through both conversions, and the first one changed it.
C27_Witness ==
    /\ RoundTrip(BGRA32, RGBA32)
    /\ cvtrace[2].bytes # cvtrace[1].bytes
    /\ cvtrace[3].bytes = cvtrace[1].bytes
    /\ cvtrace[1].width * cvtrace[1].height >= 2

--------------------------------------------------------------------------
(* Claims about the scaler's dimensions.  The code computes the fit in     *)
(* single-precision floating point; for the targets and inputs drawn here  *)
(* (all below 8) its truncated results are those of the integer divisions  *)
(* in CalculateTargetDimensions.                                           *)

\* The aspect-preserving scaler has just handled the captured frame and a
\* frame went out to the sink.
ScalerEmitted ==
    /\ fstage = "idle"
    /\ route = "scaler_aspect"
    /\ DeliverFrameForwards(capFrame)
    /\ DeliverFrameForwards(VideoScalerOnFrame(TRUE, capFrame))

Abs(n) == IF n < 0 THEN 0 - n ELSE n

Min(a, b) == IF a < b THEN a ELSE b

\* |W'/H' - W/H| multiplied by H * H', for input W x H and output W' x H'.
AspectError == Abs(sinkFrame.width * capFrame.height - capFrame.width * sinkFrame.height)

--------------------------------------------------------------------------
(* Claims about the shape of the linked graph                              *)

\* The nodes a frame handed to the nodes of set can reach within n hops.
RECURSIVE ReachableFrom(_, _, _)
ReachableFrom(S, set, n) ==
    IF n = 0 THEN set
    ELSE ReachableFrom(S, set \cup UNION {Range(S[u]) : u \in set \cap Upstreams}, n - 1)

\* The direct and transitive downstream nodes of u.
Downstream(S, u) == ReachableFrom(S, Range(S[u]), Cardinality(Upstreams))

\* C29: after any AddProcessor calls (the same processor possibly added
\* more than once) and a successful LinkAll the sink graph is acyclic: no
\* node is its own direct or transitive downstream.
C29_LinkedGraphAcyclic ==
    (lastOp = "LinkAll" /\ retVal) =>
        \A u \in Upstreams : u \notin Downstream(sinks_, u)

--------------------------------------------------------------------------
(* Claims about the engine's mutex and the frame callback                  *)

\* The worker is inside frame_callback_(frame).
InCallback(w) == eng.display_ /\ wrk[w] \in {"callback", "cb_lock"}

\* Caller c is in Stop, holding mutex_ and waiting in join() for worker w,
\* while w waits in the callback for mutex_: neither can take another step.
StopAndCallbackBlocked(c, w) ==
    /\ cpc[c] = "sp_join"
    /\ eng.mutex_ = c
    /\ eng.capture_thread_ = w
    /\ wrk[w] = "cb_lock"

\* C30: the engine's mutex is never held while the worker is executing the
\* frame callback, and a sink calling IsRunning() from inside the callback
\* is never blocked for good by a thread inside Stop().
C30_MutexNeverHeldAcrossCallback ==
    /\ \A w \in Workers : InCallback(w) => eng.mutex_ = NoCaller
    /\ \A c \in Callers : \A w \in Workers : ~StopAndCallbackBlocked(c, w)

--------------------------------------------------------------------------
(* Frame order.  One producer thread calls DeliverFrame(f1), then          *)
(* DeliverFrame(f2), on the source of src -> c1 -> (c2, snkA),             *)
(* c2 -> snkB, where c1 and c2 are PixelFormatConverters.  ord.stack is    *)
(* the thread's stack of DeliverFrame activations: every OnFrame is a      *)
(* plain call, so the callee's activation sits on top of its caller's.     *)

OrderOnly == UNCHANGED OutsideOrder

\* The sink list of every node of the chain.
ChainSinks(node) ==
    IF node = "src" THEN <<"c1">>
    ELSE IF node = "c1" THEN <<"c2", "snkA">>
    ELSE IF node = "c2" THEN <<"snkB">>
    ELSE <<>>

ChainTerminals == {"snkA", "snkB"}

ConverterIndex(node) == IF node = "c1" THEN 1 ELSE 2

\* The frames the producer draws f1 and f2 from: two video frames, an audio
\* frame and an empty one.
OrderFrames ==
    {SourceFrame(BGRA32, 2, 2, 0, 1), SourceFrame(RGB24, 2, 2, 1, 1),
     SourceFrame(PCM_S16LE, 2, 2, 0, 0), SourceFrame(BGRA32, 0, 2, 0, 0)}

\* The k-th frame of the producer; origin follows it through the chain.
Produced(k, f) == [origin |-> k, frame |-> [f EXCEPT !.ref = 10 * k]]

\* The reference of the frame converter node allocates for frame origin.
FreshRef(origin, node) == 10 * origin + ConverterIndex(node)

MayReturnEarly(act) == TRUE

\* ISource::DeliverFrame returns when its loop has gone through sinks_
MayReturn(act) == act.next > Len(ChainSinks(act.node))

ChainTop == ord.stack[Len(ord.stack)]

\* The producer calls source->DeliverFrame(f) once its previous call has
\* returned; a null or invalid frame makes DeliverFrame return at once.
ProducerDeliverFrame ==
    /\ ord.stack = <<>>
    /\ ord.queue # <<>>
    /\ LET p == Head(ord.queue) IN
          ord' = IF DeliverFrameForwards(p.frame)
                 THEN [ord EXCEPT !.queue = Tail(@),
                                  !.stack = <<[node |-> "src", origin |-> p.origin,
                                               frame |-> p.frame, next |-> 1]>>]
                 ELSE [ord EXCEPT !.queue = Tail(@), !.returned = @ \cup {p.origin}]
    /\ OrderOnly

\* sink->OnFrame(frame) for the next sink of the running DeliverFrame: a
\* terminal sink takes the frame and returns; a converter runs OnFrame,
\* which calls its own DeliverFrame when it has a frame to hand on.
ChainDeliverFrameCallsOnFrame ==
    /\ ord.stack # <<>>
    /\ ChainTop.next <= Len(ChainSinks(ChainTop.node))
    /\ LET sink == ChainSinks(ChainTop.node)[ChainTop.next]
           resumed == [ord.stack EXCEPT ![Len(ord.stack)].next = @ + 1]
           out == OnFrameResult(ChainTop.frame, ord.cfg[ConverterIndex(sink)],
                                FreshRef(ChainTop.origin, sink)).frame
       IN  ord' = IF sink \in ChainTerminals
                  THEN [ord EXCEPT !.stack = resumed,
                                   !.log[sink] = Append(@, [origin |-> ChainTop.origin,
                                                            frame |-> ChainTop.frame])]
                  ELSE IF DeliverFrameForwards(out)
                  THEN [ord EXCEPT !.stack = Append(resumed,
                                      [node |-> sink, origin |-> ChainTop.origin,
                                       frame |-> out, next |-> 1])]
                  ELSE [ord EXCEPT !.stack = resumed]
    /\ OrderOnly

\* DeliverFrame returns to its caller: the OnFrame of the upstream node, or
\* the producer.
ChainDeliverFrameReturns ==
    /\ ord.stack # <<>>
    /\ MayReturn(ChainTop)
    /\ ord' = [ord EXCEPT !.stack = SubSeq(@, 1, Len(@) - 1),
                          !.returned = IF Len(ord.stack) = 1 THEN @ \cup {ChainTop.origin} ELSE @]
    /\ OrderOnly

InitOrder ==
    /\ InitPipeline
    /\ IdleSource
    /\ IdleCapture
    /\ IdleFrame
    /\ IdleEngine
    /\ IdleDiscovery
    /\ IdleServices
    /\ IdleConvert
    /\ IdleWire
    /\ IdleScaler
    /\ IdleCallback
    /\ IdleQueue
    /\ \E cfg \in SupportedFormats \X SupportedFormats : \E f1, f2 \in OrderFrames :
          ord = [cfg |-> cfg,
                 frames |-> <<Produced(1, f1).frame, Produced(2, f2).frame>>,
                 queue |-> <<Produced(1, f1), Produced(2, f2)>>,
                 stack |-> <<>>,
                 log |-> [s \in ChainTerminals |-> <<>>],
                 returned |-> {}]

NextOrder ==
    \/ ProducerDeliverFrame
    \/ ChainDeliverFrameCallsOnFrame
    \/ ChainDeliverFrameReturns

SpecOrder == InitOrder /\ [][NextOrder]_vars

\* What sink s is due for the producer's k-th frame: the frame c1 makes of
\* it (snkA), or the frame c2 makes of that (snkB); NoFrame when nothing.
DerivedFrame(k, s) ==
    LET f == ord.frames[k]
        out1 == IF DeliverFrameForwards(f)
                THEN OnFrameResult(f, ord.cfg[1], FreshRef(k, "c1")).frame ELSE NoFrame
        out2 == IF DeliverFrameForwards(out1)
                THEN OnFrameResult(out1, ord.cfg[2], FreshRef(k, "c2")).frame ELSE NoFrame
    IN  IF s = "snkA" THEN out1 ELSE out2

\* The positions of sink s's log holding a frame of origin k.
ReceivedAt(k, s) == {i \in 1..Len(ord.log[s]) : ord.log[s][i].origin = k}

\* C31: with f1 then f2 delivered from one thread, every sink receives the
\* frame derived from f1 before the one derived from f2, each at most once;
\* DeliverFrame(f1) has returned before anything of f2 is in the chain, and
\* when a DeliverFrame has returned to the producer every sink already holds
\* the frame derived for it (and nothing where the chain drops the frame).
C31_FramesArriveInDeliveryOrder ==
    ord.frames # <<>> =>
        /\ \A s \in ChainTerminals : \A i, j \in 1..Len(ord.log[s]) :
              i < j => ord.log[s][i].origin < ord.log[s][j].origin
        /\ (\E s \in ChainTerminals : ReceivedAt(2, s) # {}) => 1 \in ord.returned
        /\ (\E i \in 1..Len(ord.stack) : ord.stack[i].origin = 2) => 1 \in ord.returned
        /\ \A k \in ord.returned : \A s \in ChainTerminals :
              IF DeliverFrameForwards(DerivedFrame(k, s))
              THEN \E i \in ReceivedAt(k, s) : ord.log[s][i].frame = DerivedFrame(k, s)
              ELSE ReceivedAt(k, s) = {}

\* Both frames went through both converters and reached both sinks, the
\* second converter having built new frames.
C31_Witness ==
    /\ ord.returned = {1, 2}
    /\ \A s \in ChainTerminals : Len(ord.log[s]) = 2
    /\ ord.log["snkB"][1].frame.ref = FreshRef(1, "c2")
    /\ ord.log["snkB"][2].frame.ref = FreshRef(2, "c2")

--------------------------------------------------------------------------
(* The discovery wire format: a service broadcasts type|id|port|version    *)
(* from its DiscoveryLoop and a peer's OnReceive takes the datagram apart. *)

WireOnly == UNCHANGED OutsideWire

\* Broadcasts followed.
MaxBroadcasts == 2

\* What a service may be constructed with.  type and id hold no '|';
\* version may.
WireTypes == {<<>>, <<"t">>, <<"t", "a">>}
WireIds == {<<>>, <<"4", "2">>, <<"a", "7">>}
WirePorts == {0, 7, 80, 19000, 65535}
WireVersions == {<<>>, <<"1">>, <<"1", "|", "0">>, <<"|">>}

\* DiscoveryLoop: oss << type_ << '|' << id_ << '|' << port_ << '|' << version_
WireMessage(svc) ==
    svc.type \o <<"|">> \o svc.id \o <<"|">> \o ToDecimal(svc.port) \o <<"|">> \o svc.version

\* The fields OnReceive takes out of a datagram, before it decides whether
\* to report them; ok is false when a separator is missing or std::stoi throws.
ParseDatagram(data) ==
    LET p1 == StringFind(data, "|", 0)
        p2 == StringFind(data, "|", SizeTSucc(p1))
        p3 == StringFind(data, "|", SizeTSucc(p2))
        unparsed == [ok |-> FALSE, type |-> <<>>, id |-> <<>>, port |-> 0, version |-> <<>>]
    IN  IF p1 # Npos /\ p2 # Npos /\ p3 # Npos
        THEN LET port == Stoi(Substr(data, p2 + 1, p3 - p2 - 1))
             IN  IF ~port.ok THEN unparsed
                 ELSE [ok |-> TRUE,
                       type |-> Substr(data, 0, p1),
                       id |-> Substr(data, p1 + 1, p2 - p1 - 1),
                       port |-> ToUint16(port.value),
                       version |-> SubstrToEnd(data, p3 + 1)]
        ELSE unparsed

\* The loop's broadcast: client_->Send(msg).  id_ is assigned in the
\* constructor only.
WireBroadcast ==
    /\ wire.built
    /\ Len(wire.sent) < MaxBroadcasts
    /\ wire' = [wire EXCEPT !.sent = Append(@, WireMessage(wire.svc))]
    /\ WireOnly

\* The peer's OnReceive takes the next datagram apart.
WireReceive ==
    /\ Len(wire.parsed) < Len(wire.sent)
    /\ wire' = [wire EXCEPT !.parsed = Append(@, ParseDatagram(wire.sent[Len(wire.parsed) + 1]))]
    /\ WireOnly

InitWire ==
    /\ InitPipeline
    /\ IdleSource
    /\ IdleCapture
    /\ IdleFrame
    /\ IdleEngine
    /\ IdleDiscovery
    /\ IdleServices
    /\ IdleConvert
    /\ IdleOrder
    /\ IdleScaler
    /\ IdleCallback
    /\ IdleQueue
    /\ \E t \in WireTypes, i \in WireIds, p \in WirePorts, v \in WireVersions :
          wire = [NoWire EXCEPT !.svc = [type |-> t, id |-> i, port |-> p, version |-> v],
                                !.built = TRUE]

NextWire ==
    \/ WireBroadcast
    \/ WireReceive

SpecWire == InitWire /\ [][NextWire]_vars

\* C32: whatever type and id without '|', version and port in 0..65535 a
\* service was constructed with, the peer's parser takes exactly that type,
\* id, port and version out of each of its broadcasts; every broadcast
\* carries the id given at construction.
C32_WireRoundTrip ==
    /\ \A k \in 1..Len(wire.parsed) :
          /\ wire.parsed[k].ok
          /\ wire.parsed[k].type = wire.svc.type
          /\ wire.parsed[k].id = wire.svc.id
          /\ wire.parsed[k].port = wire.svc.port
          /\ wire.parsed[k].version = wire.svc.version
    /\ \A k \in 1..Len(wire.sent) :
          LET data == wire.sent[k]
              p1 == StringFind(data, "|", 0)
              p2 == StringFind(data, "|", p1 + 1)
          IN  p1 # Npos /\ p2 # Npos /\ SubSeq(data, p1 + 2, p2) = wire.svc.id

\* Two broadcasts of a service whose version holds a '|' and whose port has
\* five digits were both parsed.
C32_Witness ==
    /\ Len(wire.parsed) = 2
    /\ wire.svc.version = <<"1", "|", "0">>
    /\ wire.svc.port = 65535
    /\ wire.parsed[2].version = <<"1", "|", "0">>

--------------------------------------------------------------------------
(* Claims about the channel-swapping conversions                           *)

PackedFormats == {RGB24, BGR24, RGBA32, BGRA32}

HasAlpha(f) == f.format \in {RGBA32, BGRA32}

\* The alpha byte of pixel p of an RGBA32 or BGRA32 frame.
AlphaOf(f, p) == f.bytes[p * 4 + 4]

\* Converter k turned a frame of one packed format into another.
Repacked(k) ==
    /\ Emitted(k)
    /\ cvtrace[k].format \in PackedFormats
    /\ cvtrace[k + 1].format \in PackedFormats
    /\ cvtrace[k].format # cvtrace[k + 1].format

\* C33: in each of the twelve conversions between two distinct formats of
\* {RGB24, BGR24, RGBA32, BGRA32} every output pixel has the R, G and B of
\* the input pixel at the same position; alpha is copied from a 32-bit
\* input and is 255 after a 24-bit input.
C33_RepackKeepsColours ==
    \A k \in 1..2 :
        Repacked(k) =>
            LET in == cvtrace[k]
                out == cvtrace[k + 1]
                pixels == in.width * in.height
            IN  /\ out.width = in.width
                /\ out.height = in.height
                /\ Len(out.bytes) = pixels * (IF HasAlpha(out) THEN 4 ELSE 3)
                /\ \A p \in 0..(pixels - 1) :
                      /\ \A c \in 0..2 : Channel(out, p, c) = Channel(in, p, c)
                      /\ HasAlpha(out) =>
                            AlphaOf(out, p) = IF HasAlpha(in) THEN AlphaOf(in, p) ELSE 255

\* A BGR24 frame of several pixels became RGBA32 and then BGRA32.
C33_Witness ==
    /\ Len(cvtrace) = 3
    /\ Repacked(1)
    /\ Repacked(2)
    /\ cvtrace[1].format = BGR24
    /\ cvconfig = <<RGBA32, BGRA32>>
    /\ cvtrace[1].width * cvtrace[1].height >= 2
    /\ cvtrace[1].bytes[1] # cvtrace[1].bytes[3]

\* ---------------------------------------------------------------------------
\* VideoScaler statistics: a scaler handed frames one by one (SpecScaler)
\* ---------------------------------------------------------------------------

ScalerOnly == UNCHANGED OutsideScaler

\* Frames the scaler has handled before its counters are no longer followed.
MaxFrames == 3

\* The frames handed to VideoScaler::OnFrame: an empty pointer, a frame without
\* data, and frames of video, audio and unknown formats holding data.
ScalerInputs ==
    {NullPtr, [NullPtr EXCEPT !.ptr = TRUE]}
        \cup {[ptr |-> TRUE, data |-> TRUE,
               size |-> w * h * (IF f \in {RGB24, BGR24} THEN 3 ELSE 4),
               format |-> f, width |-> w, height |-> h] :
                 f \in {BGRA32, RGBA32, RGB24, BGR24, I420, PCM_S16LE, UNKNOWN},
                 w \in 1..MaxDim, h \in 1..MaxDim}

OnFrameStatsCountsEveryFrame(maintain_aspect_ratio, f, stats) ==
    [stats EXCEPT !.frames_processed = @ + 1]

\* VideoScaler::OnFrame and UpdateStats: the counters after handling f.
OnFrameStats(maintain_aspect_ratio, f, stats) ==
    IF ~f.ptr \/ ~FrameIsValid(f) \/ ~IsVideo(f)
    THEN [stats EXCEPT !.frames_dropped = @ + 1]
    ELSE IF ~IsScalingNeeded(maintain_aspect_ratio, f.width, f.height) THEN stats
    ELSE IF ScaleFrame(maintain_aspect_ratio, f).ptr
         THEN [stats EXCEPT !.frames_processed = @ + 1]
         ELSE [stats EXCEPT !.frames_dropped = @ + 1]

\* One call of VideoScaler::OnFrame(f), with the DeliverFrame it makes.
VideoScalerOnFrameCall ==
    /\ scl.stats_.frames_processed + scl.stats_.frames_dropped < MaxFrames
    /\ \E f \in ScalerInputs :
          LET out == VideoScalerOnFrame(scl.maintain_aspect_ratio, f)
          IN  scl' = [scl EXCEPT
                        !.called = TRUE,
                        !.input = f,
                        !.delivered = IF DeliverFrameForwards(out) THEN out ELSE NullPtr,
                        !.before = scl.stats_,
                        !.stats_ = OnFrameStats(scl.maintain_aspect_ratio, f, scl.stats_)]
    /\ ScalerOnly

InitScaler ==
    /\ InitPipeline
    /\ IdleSource
    /\ IdleCapture
    /\ IdleFrame
    /\ IdleEngine
    /\ IdleDiscovery
    /\ IdleServices
    /\ IdleConvert
    /\ IdleOrder
    /\ IdleWire
    /\ IdleCallback
    /\ IdleQueue
    /\ \E b \in BOOLEAN :
          scl = [maintain_aspect_ratio |-> b, called |-> FALSE, input |-> NullPtr,
                 delivered |-> NullPtr, stats_ |-> NoStats, before |-> NoStats]

NextScaler == VideoScalerOnFrameCall

SpecScaler == InitScaler /\ [][NextScaler]_vars

\* The last frame handed to the scaler is one it cannot pass on: empty,
\* without data, not video, or video in a format it cannot scale whose
\* dimensions differ from the target.
Unscalable(f, maintain_aspect_ratio) ==
    \/ ~f.ptr
    \/ ~FrameIsValid(f)
    \/ ~IsVideo(f)
    \/ /\ f.format \notin {BGRA32, RGBA32}
       /\ CalculateTargetDimensions(maintain_aspect_ratio, f.width, f.height)
              # <<f.width, f.height>>

\* C34: after VideoScaler::OnFrame is given an empty, invalid or non-video
\* frame, or a video frame in a format other than BGRA32/RGBA32 whose
\* dimensions differ from the target, nothing has been delivered downstream,
\* frames_dropped has grown by exactly one and frames_processed is unchanged.
C34_UnscalableFrameDroppedAndCounted ==
    (scl.called /\ Unscalable(scl.input, scl.maintain_aspect_ratio)) =>
        /\ scl.delivered = NullPtr
        /\ scl.stats_.frames_dropped = scl.before.frames_dropped + 1
        /\ scl.stats_.frames_processed = scl.before.frames_processed

C34_Witness ==
    /\ scl.called
    /\ scl.input.ptr
    /\ scl.input.data
    /\ scl.input.format = RGB24
    /\ scl.input.width = 1
    /\ scl.delivered = NullPtr
    /\ scl.stats_.frames_dropped = 2
    /\ scl.before.frames_dropped = 1

\* ---------------------------------------------------------------------------
\* A sink that changes the sink list of the source delivering to it
\* (SpecReentrant)
\* ---------------------------------------------------------------------------

\* sink->OnFrame(frame), running on thread t inside DeliverFrame's range-for
\* and so under t's shared_lock, calls AddSink(s), RemoveSink(s) or
\* ClearSinks() on the delivering source: the thread goes on to that method's
\* unique_lock constructor.
SinkCallsListOperation(t, op, s) ==
    /\ tpc[t] = "dl_onframe"
    /\ t \in readers
    /\ Goto(t, op)
    /\ targ' = [targ EXCEPT ![t] = IF op = "clr_lock" THEN Null ELSE s]
    /\ UNCHANGED <<tframe, tidx, readers, writer, delivered, snap, addedBefore, removed,
                   sinks_, lastWrite>>
    /\ SourceOnly

\* Locking a std::shared_mutex the calling thread already owns is undefined:
\* the thread either stays in the constructor for ever (no step), or lock()
\* throws std::system_error, which leaves OnFrame and DeliverFrame by
\* unwinding and releases the shared_lock on the way.
LockUniqueThrows(t) ==
    /\ tpc[t] \in {"add_lock", "rm_lock", "clr_lock"}
    /\ t \in readers
    /\ readers' = readers \ {t}
    /\ Goto(t, "thrown")
    /\ targ' = [targ EXCEPT ![t] = Null]
    /\ tframe' = [tframe EXCEPT ![t] = NullFrame]
    /\ tidx' = [tidx EXCEPT ![t] = 0]
    /\ delivered' = [delivered EXCEPT ![t] = <<>>]
    /\ snap' = [snap EXCEPT ![t] = <<>>]
    /\ UNCHANGED <<writer, addedBefore, removed, sinks_, lastWrite>>
    /\ SourceOnly

NextReentrant ==
    \/ NextSource
    \/ \E t \in Threads :
          \/ \E s \in FanSinks : SinkCallsListOperation(t, "add_lock", s)
          \/ \E s \in FanSinks : SinkCallsListOperation(t, "rm_lock", s)
          \/ SinkCallsListOperation(t, "clr_lock", Null)
          \/ LockUniqueThrows(t)

SpecReentrant == InitLink /\ [][NextReentrant]_vars

\* Thread t is in the unique_lock constructor of a list operation while it
\* holds the shared lock of the same mutex: the constructor cannot return.
BlockedOnOwnLock(t) ==
    /\ tpc[t] \in {"add_lock", "rm_lock", "clr_lock"}
    /\ t \in readers

\* C35: a delivering thread is never waiting for the sink-list lock it holds
\* itself, and DeliverFrame is never left by an exception: when every sink's
\* OnFrame body returns, DeliverFrame returns, also when a sink's OnFrame calls
\* RemoveSink, AddSink or ClearSinks on the delivering source.
C35_DeliveringThreadNeverBlocksOnOwnLock ==
    \A t \in Threads : ~BlockedOnOwnLock(t) /\ tpc[t] # "thrown"

--------------------------------------------------------------------------
(* Start called on a DiscoveryService whose worker was not joined          *)

\* C36: for any sequence of Start and Stop calls, Start never assigns
\* discovery_thread_ while the thread object it holds is still joinable (so
\* no joinable std::thread is destroyed and the process is not terminated),
\* and at most one worker is alive at any time.
C36_NoJoinableWorkerOverwritten ==
    /\ ~dfault
    /\ Cardinality({w \in DWorkers : DiscoveryAlive(dwrk[w])}) <= 1

\* ---------------------------------------------------------------------------
\* SetFrameCallback against a running capture worker (SpecCallback)
\* ---------------------------------------------------------------------------

CallbackOnly == UNCHANGED OutsideCallback

\* SetFrameCallback calls and captured frames that are followed.
MaxSets == 2
MaxCaptures == 2

\* The callbacks a caller installs: an empty std::function and two targets.
Callbacks == {"empty", "A", "B"}

\* SetFrameCallback: lock_guard on mutex_ is taken and the assignment to
\* frame_callback_ begins.
SetFrameCallbackBegins(callback) ==
    /\ cbk.fault = "none"
    /\ ~cbk.mutex_
    /\ cbk.sets < MaxSets
    /\ cbk' = [cbk EXCEPT !.mutex_ = TRUE, !.pending = callback, !.sets = @ + 1]
    /\ CallbackOnly

\* SetFrameCallback: the assignment is complete and the lock is released.
SetFrameCallbackEnds ==
    /\ cbk.fault = "none"
    /\ cbk.mutex_
    /\ cbk' = [cbk EXCEPT !.frame_callback_ = cbk.pending, !.mutex_ = FALSE]
    /\ CallbackOnly

\* What a read of frame_callback_ made without mutex_ can yield: the stored
\* value, or, while an assignment is in progress, the old value, the new one
\* or an object that is neither ("torn").
ReadsOfCallback == IF cbk.mutex_ THEN {cbk.frame_callback_, cbk.pending, "torn"}
                                 ELSE {cbk.frame_callback_}

\* CaptureFrame, the test `!frame_callback_ || !display_` (display_ is set):
\* an empty callback skips the frame, otherwise the frame is grabbed.
CaptureFrameTests ==
    /\ cbk.fault = "none"
    /\ cbk.worker = "loop"
    /\ cbk.frames < MaxCaptures
    /\ \E seen \in ReadsOfCallback :
          cbk' = [cbk EXCEPT
                    !.raced = @ \/ cbk.mutex_,
                    !.fault = IF seen = "torn" THEN "torn_read" ELSE @,
                    !.worker = IF seen \in {"empty", "torn"} THEN "loop" ELSE "grabbed",
                    !.frames = IF seen = "empty" THEN @ + 1 ELSE @,
                    !.invoked = IF seen = "empty" THEN "skipped" ELSE @]
    /\ CallbackOnly

\* CaptureFrame, `frame_callback_(frame)`: calling an empty std::function
\* throws std::bad_function_call, which leaves the thread function.
CaptureFrameInvokes ==
    /\ cbk.fault = "none"
    /\ cbk.worker = "grabbed"
    /\ \E seen \in ReadsOfCallback :
          cbk' = [cbk EXCEPT
                    !.raced = @ \/ cbk.mutex_,
                    !.fault = IF seen = "torn" THEN "torn_read"
                              ELSE IF seen = "empty" THEN "bad_function_call" ELSE @,
                    !.worker = "loop",
                    !.frames = @ + 1,
                    !.invoked = seen]
    /\ CallbackOnly

\* An initialised engine after Start: the worker is in CaptureThreadProc; the
\* callback was set, or left empty, before Start.
InitCallback ==
    /\ InitPipeline
    /\ IdleSource
    /\ IdleCapture
    /\ IdleFrame
    /\ IdleEngine
    /\ IdleDiscovery
    /\ IdleServices
    /\ IdleConvert
    /\ IdleOrder
    /\ IdleWire
    /\ IdleScaler
    /\ IdleQueue
    /\ \E c \in Callbacks :
          cbk = [frame_callback_ |-> c, mutex_ |-> FALSE, pending |-> c,
                 worker |-> "loop", sets |-> 0, frames |-> 0, invoked |-> "none",
                 raced |-> FALSE, fault |-> "none"]

NextCallback ==
    \/ \E callback \in Callbacks : SetFrameCallbackBegins(callback)
    \/ SetFrameCallbackEnds
    \/ CaptureFrameTests
    \/ CaptureFrameInvokes

SpecCallback == InitCallback /\ [][NextCallback]_vars

\* C37: the worker never invokes an empty frame callback and never reads
\* frame_callback_ while SetFrameCallback is writing it: every captured frame
\* goes to a fully installed callback or is skipped.
C37_CallbackNeverEmptyNorReadWhileWritten ==
    /\ ~cbk.raced
    /\ cbk.fault = "none"
    /\ cbk.invoked \in {"none", "skipped", "A", "B"}

\* ---------------------------------------------------------------------------
\* ServiceBase: NotifyMainService and EnqueueTask called from several threads
\* of a running service with a notifier (SpecQueue)
\* ---------------------------------------------------------------------------

QueueOnly == UNCHANGED OutsideQueue

\* Calls of NotifyMainService / EnqueueTask that are followed.
MaxTasks == 4

Enqueuers == 1..NumCallers

\* NotifyMainService / EnqueueTask: the service is running (and has a
\* notifier), so the call goes on to EnsureTaskQueueStarted.
CallEnqueueTask(t) ==
    /\ tq.at[t] = "idle"
    /\ tq.calls < MaxTasks
    /\ tq' = [tq EXCEPT !.at[t] = "ensure", !.calls = @ + 1]
    /\ QueueOnly

\* EnsureTaskQueueStarted: `if (!task_queue_)`, read without a lock.
EnsureTests(t) ==
    /\ tq.at[t] = "ensure"
    /\ tq' = [tq EXCEPT !.at[t] = IF tq.task_queue_ = 0 THEN "create" ELSE "enqueue"]
    /\ QueueOnly

\* EnsureTaskQueueStarted: task_queue_ = std::make_unique<TaskQueue>(...).
\* The assignment destroys the queue task_queue_ held, if any.
EnsureCreates(t) ==
    /\ tq.at[t] = "create"
    /\ LET q == tq.created + 1
       IN  tq' = [tq EXCEPT
                    !.task_queue_ = q,
                    !.created = q,
                    !.destroyed = IF tq.task_queue_ = 0 THEN @ ELSE @ \cup {tq.task_queue_},
                    !.tasks = Append(@, 0),
                    !.at[t] = "start"]
    /\ QueueOnly

\* EnsureTaskQueueStarted: task_queue_->Start(), on whatever task_queue_
\* holds now.
EnsureStarts(t) ==
    /\ tq.at[t] = "start"
    /\ tq' = [tq EXCEPT !.at[t] = "enqueue"]
    /\ QueueOnly

\* task_queue_->EnqueueTask(task): the task is placed on the queue
\* task_queue_ holds now.
Enqueues(t) ==
    /\ tq.at[t] = "enqueue"
    /\ tq' = [tq EXCEPT !.tasks[tq.task_queue_] = @ + 1, !.at[t] = "idle"]
    /\ QueueOnly

InitQueue ==
    /\ InitPipeline
    /\ IdleSource
    /\ IdleCapture
    /\ IdleFrame
    /\ IdleEngine
    /\ IdleDiscovery
    /\ IdleServices
    /\ IdleConvert
    /\ IdleOrder
    /\ IdleWire
    /\ IdleScaler
    /\ IdleCallback
    /\ tq = [task_queue_ |-> 0, created |-> 0, destroyed |-> {}, tasks |-> <<>>,
             at |-> [t \in Enqueuers |-> "idle"], calls |-> 0]

NextQueue ==
    \E t \in Enqueuers :
        \/ CallEnqueueTask(t)
        \/ EnsureTests(t)
        \/ EnsureCreates(t)
        \/ EnsureStarts(t)
        \/ Enqueues(t)

SpecQueue == InitQueue /\ [][NextQueue]_vars

\* C38: under concurrent NotifyMainService / EnqueueTask calls exactly one
\* task queue is ever created for the service, and no task sits on a queue
\* that has been discarded.
C38_OneQueueAndNoTaskOnDiscardedQueue ==
    /\ tq.created <= 1
    /\ \A q \in tq.destroyed : tq.tasks[q] = 0

--------------------------------------------------------------------------
(* The byte indices written by the RGB/BGR -> I420 converters              *)

\* The indices of dst written through u_plane (start = width * height) or
\* v_plane (start = width * height + width * height / 4): pixel (x, y) with
\* x and y even writes start + (y / 2) * (width / 2) + x / 2.
ChromaWriteOffsets(width, height, start) ==
    {start + (y \div 2) * (width \div 2) + (x \div 2) :
        x \in {i \in 0..(width - 1) : i % 2 = 0},
        y \in {j \in 0..(height - 1) : j % 2 = 0}}

\* C39: whenever a converter with output format I420 converts a frame of
\* width >= 1 and height >= 1, every index written to the Y, U and V planes
\* is smaller than the allocated output size, and no index is written both
\* as U and as V.
C39_I420WritesInBoundsAndPlanesDisjoint ==
    \A k \in 1..2 :
        (/\ Received(k)
         /\ cvconfig[k] = I420
         /\ cvtrace[k].format \in PackedFormats
         /\ cvtrace[k].width >= 1
         /\ cvtrace[k].height >= 1)
            => LET w == cvtrace[k].width
                   h == cvtrace[k].height
                   size == CalculateOutputFrameSize(w, h, I420)
                   U == ChromaWriteOffsets(w, h, w * h)
                   V == ChromaWriteOffsets(w, h, w * h + ((w * h) \div 4))
               IN  /\ w * h <= size
                   /\ \A i \in U \cup V : i < size
                   /\ U \cap V = {}

\* ---------------------------------------------------------------------------
\* The port field of a received datagram (SpecPort): a peer of the same type
\* and another id sends t|42|<text>|1 to a service whose listener is alive.
\* ---------------------------------------------------------------------------

\* The texts a peer puts in the third field.
PortTexts ==
    {<<"8", "0">>, <<"0">>, <<"6", "5", "5", "3", "5">>, <<"6", "5", "5", "3", "6">>,
     <<"7", "0", "0", "0", "0">>, <<"-", "1">>, <<"1", "2", "a", "b", "c">>,
     <<"+", "7">>, <<" ", "7">>, <<>>, <<"a">>, <<"-">>}

PeerDatagram(text) == <<"t", "|", "4", "2", "|">> \o text \o <<"|", "1">>

\* The third field of a datagram built by PeerDatagram.
PortText(data) == SubSeq(data, 6, Len(data) - 2)

\* The peer's datagram reaches the socket.
PeerSends(text) ==
    /\ Len(wire.sent) < MaxBroadcasts
    /\ Len(wire.parsed) = Len(wire.sent)
    /\ wire' = [wire EXCEPT !.sent = Append(@, PeerDatagram(text))]
    /\ WireOnly

\* InternalServerListener::OnReceive handles it.
PortReceive ==
    /\ Len(wire.parsed) < Len(wire.sent)
    /\ wire' = [wire EXCEPT
                  !.parsed = Append(@, OnReceiveResult(wire.sent[Len(wire.parsed) + 1], "alive"))]
    /\ WireOnly

NextPort ==
    \/ \E text \in PortTexts : PeerSends(text)
    \/ PortReceive

SpecPort == InitLink /\ [][NextPort]_vars

\* text is a decimal integer in 0..65535 and nothing else.
IsPortNumber(text) ==
    /\ Len(text) \in 1..5
    /\ \A i \in 1..Len(text) : IsDigit(text[i])
    /\ DecimalValue(text, Len(text)) <= 65535

\* C40: the port given to OnFound is the decimal value of the datagram's
\* third field, and a datagram whose third field is not exactly a decimal
\* integer in 0..65535 does not trigger OnFound.
C40_PortIsThirdFieldOrNoOnFound ==
    \A k \in 1..Len(wire.parsed) :
        LET text == PortText(wire.sent[k])
        IN  IF IsPortNumber(text)
            THEN wire.parsed[k].found =>
                     wire.parsed[k].port = DecimalValue(text, Len(text))
            ELSE ~wire.parsed[k].found

====
